---------------------------- MODULE Spec2Model ----------------------------
\* A model of localization/parse_rc_file.py: the line-oriented scanner
\* that extracts the translatable string literals of a Windows resource
\* script.
\*
\* A Python str is modelled as a sequence of Unicode code points, so that
\* escapes, hex decoding and line splitting are computed and not assumed.
\* None is the empty tuple and a value v that may be None is <<v>>.
EXTENDS Integers, Sequences, FiniteSets, TLC

\* Characters the source names in its patterns and replacements.
TAB    == 9
LF     == 10
CR     == 13
SPACE  == 32
QUOTE  == 34
COMMA  == 44
SLASH  == 47
CHAR_L == 76
BSLASH == 92
CHAR_x == 120

\* the keywords of lines 19-42, as code points
S_MENU        == <<32, 77, 69, 78, 85>>                      \* ' MENU'
S_DIALOG      == <<68, 73, 65, 76, 79, 71>>                  \* 'DIALOG'
S_DIALOGEX    == <<68, 73, 65, 76, 79, 71, 69, 88>>          \* 'DIALOGEX'
S_STRINGTABLE == <<83, 84, 82, 73, 78, 71, 84, 65, 66, 76, 69>>
S_BEGIN       == <<66, 69, 71, 73, 78>>
S_END         == <<69, 78, 68>>
S_CAPTION     == <<67, 65, 80, 84, 73, 79, 78>>
S_None        == <<78, 111, 110, 101>>                       \* str(None)

\* the escapes of line 73: r'\r', r'\n', r'\t' are two characters each and
\* r'\\"' is three: a raw string keeps both backslashes
ESC_r     == <<92, 114>>
ESC_n     == <<92, 110>>
ESC_t     == <<92, 116>>
ESC_quote == <<92, 92, 34>>

\* a pattern that takes up to six hex digits
HexDigitsSix == 4 + 2

\* the number of hex digits of the wide escape, {4} on line 75
HexDigits == 4
\* chr() raises ValueError above this code point
MaxCodePoint == 1114111

None == <<>>
Some(v) == <<v>>
\* Python truthiness of an optional string: neither None nor ''
Truthy(o) == o # None /\ o[1] # <<>>

\* Character classes.
\* [\t ] of the patterns
IsBlank(c) == c = TAB \/ c = SPACE
\* \w of the patterns (the ASCII part of it)
IsWord(c) == c \in 48..57 \/ c \in 65..90 \/ c \in 97..122 \/ c = 95
IsHex(c) == c \in 48..57 \/ c \in 65..70 \/ c \in 97..102
\* what str.strip() removes (the Latin-1 part of str.isspace)
IsSpace(c) == c \in 9..13 \/ c \in 28..32 \/ c = 133 \/ c = 160
\* what str.splitlines() splits on
IsLineBreak(c) == c \in 10..13 \/ c \in 28..30 \/ c = 133 \/ c = 8232 \/ c = 8233

\* String helpers.
\* s[i:] begins with p (i is 1-based)
HasAt(s, i, p) ==
    /\ i >= 1
    /\ i + Len(p) - 1 <= Len(s)
    /\ \A k \in 1..Len(p) : s[i + k - 1] = p[k]

\* str.endswith
EndsWith(s, p) == Len(s) >= Len(p) /\ HasAt(s, Len(s) - Len(p) + 1, p)

\* the first index >= i that holds no blank: the end of [\t ]* started at i
SkipBlank(s, i) ==
    CHOOSE j \in i..(Len(s) + 1) :
        /\ \A k \in i..(j - 1) : IsBlank(s[k])
        /\ (j = Len(s) + 1 \/ ~IsBlank(s[j]))

\* the first index >= i that holds no word character: the end of \w* at i
SkipWord(s, i) ==
    CHOOSE j \in i..(Len(s) + 1) :
        /\ \A k \in i..(j - 1) : IsWord(s[k])
        /\ (j = Len(s) + 1 \/ ~IsWord(s[j]))

\* the index of the first double quote at or after i, 0 when there is none
NextQuote(s, i) ==
    IF \E j \in i..Len(s) : s[j] = QUOTE
    THEN CHOOSE j \in i..Len(s) :
            s[j] = QUOTE /\ \A k \in i..(j - 1) : s[k] # QUOTE
    ELSE 0

\* the index of the last double quote, 0 when there is none
LastQuote(s) ==
    IF \E j \in 1..Len(s) : s[j] = QUOTE
    THEN CHOOSE j \in 1..Len(s) :
            s[j] = QUOTE /\ \A k \in (j + 1)..Len(s) : s[k] # QUOTE
    ELSE 0

\* the length of the run of double quotes that starts at q
QuoteRun(s, q) ==
    CHOOSE n \in 0..(Len(s) - q + 1) :
        /\ \A k \in q..(q + n - 1) : s[k] = QUOTE
        /\ (q + n = Len(s) + 1 \/ s[q + n] # QUOTE)

\* str.replace(old, new): left to right, non-overlapping, no rescan
RECURSIVE ReplaceFrom(_, _, _, _)
ReplaceFrom(s, i, old, new) ==
    IF i > Len(s) THEN <<>>
    ELSE IF HasAt(s, i, old) THEN new \o ReplaceFrom(s, i + Len(old), old, new)
    ELSE <<s[i]>> \o ReplaceFrom(s, i + 1, old, new)

Replace(s, old, new) == ReplaceFrom(s, 1, old, new)

\* Line 15: rc_file_text.splitlines().  A break ends the line before it,
\* CR LF is one break, and a text that ends in a break has no empty last
\* line.
\* the index of the first line break at or after i, Len(t) + 1 for none
NextBreak(t, i) ==
    CHOOSE j \in i..(Len(t) + 1) :
        /\ \A k \in i..(j - 1) : ~IsLineBreak(t[k])
        /\ (j = Len(t) + 1 \/ IsLineBreak(t[j]))

RECURSIVE SplitFrom(_, _)
SplitFrom(t, i) ==
    IF i > Len(t) THEN <<>>
    ELSE LET j == NextBreak(t, i)
             skip == IF j < Len(t) /\ t[j] = CR /\ t[j + 1] = LF THEN 2 ELSE 1
         IN  <<SubSeq(t, i, j - 1)>> \o SplitFrom(t, j + skip)

SplitLines(t) == SplitFrom(t, 1)

\* Lines 16-17: the normalised line.
\* str.strip()
Strip(s) ==
    IF \A k \in 1..Len(s) : IsSpace(s[k]) THEN <<>>
    ELSE LET a == CHOOSE j \in 1..Len(s) :
                    ~IsSpace(s[j]) /\ \A k \in 1..(j - 1) : IsSpace(s[k])
             b == CHOOSE j \in 1..Len(s) :
                    ~IsSpace(s[j]) /\ \A k \in (j + 1)..Len(s) : IsSpace(s[k])
         IN  SubSeq(s, a, b)

\* re.sub(r'[\t ]+', ' ', s)
RECURSIVE CollapseFrom(_, _)
CollapseFrom(s, i) ==
    IF i > Len(s) THEN <<>>
    ELSE IF IsBlank(s[i]) THEN <<SPACE>> \o CollapseFrom(s, SkipBlank(s, i))
    ELSE <<s[i]>> \o CollapseFrom(s, i + 1)

Collapse(s) == CollapseFrom(s, 1)

\* re.sub(r'\/\/.*$', '', s): everything from the first '//' is removed
StripComment(s) ==
    IF \E j \in 1..Len(s) : HasAt(s, j, <<SLASH, SLASH>>)
    THEN LET c == CHOOSE j \in 1..Len(s) :
                    /\ HasAt(s, j, <<SLASH, SLASH>>)
                    /\ \A k \in 1..(j - 1) : ~HasAt(s, k, <<SLASH, SLASH>>)
         IN  SubSeq(s, 1, c - 1)
    ELSE s

\* a normalisation that removes the comment first and trims after it
NormLineTrimLast(line) == Collapse(Strip(StripComment(line)))

\* the trim comes first: the blank before a comment survives as a trailing ' '
NormLine(line) == StripComment(Collapse(Strip(line)))

\* Line 22: re.match(r'^(\w+) (DIALOG|DIALOGEX) ', norm_line).
DialogMatch(norm_line) ==
    LET w == SkipWord(norm_line, 1)
        ok == /\ w > 1
              /\ \/ HasAt(norm_line, w, <<SPACE>> \o S_DIALOG \o <<SPACE>>)
                 \/ HasAt(norm_line, w, <<SPACE>> \o S_DIALOGEX \o <<SPACE>>)
    IN  [ok |-> ok, g1 |-> IF ok THEN SubSeq(norm_line, 1, w - 1) ELSE <<>>]

\* The quoted string of lines 39 and 46, after its opening quote:
\*     (.*?("")*)*?"      and      ([^"]*?("")*)*?"
\* The repeats are lazy, so the match ends at the first double quote the
\* backtracking search reaches.  Started at p: a quote at p closes the
\* literal at once.  Otherwise the search walks to the next run of quotes;
\* ("")* is greedy and takes the pairs of the run, so a run of odd length
\* closes the literal at its last quote, and a run of even length is
\* skipped as escaped quotes; when nothing closes the literal after an
\* even run, the search gives back one pair and closes at the quote before
\* the run's last.  The index of the closing quote, 0 for no match.
RECURSIVE CloseQuote(_, _)
CloseQuote(s, p) ==
    IF p > Len(s) THEN 0
    ELSE IF s[p] = QUOTE THEN p
    ELSE LET q == NextQuote(s, p + 1) IN
         IF q = 0 THEN 0
         ELSE LET n == QuoteRun(s, q) IN
              IF n % 2 = 1 THEN q + n - 1
              ELSE LET r == CloseQuote(s, q + n) IN
                   IF r # 0 THEN r ELSE q + n - 2

\* L?"..." of lines 39 and 46 at index j: the index of its closing quote, or 0
LiteralEnd(s, j) ==
    IF HasAt(s, j, <<CHAR_L, QUOTE>>) /\ CloseQuote(s, j + 2) # 0
    THEN CloseQuote(s, j + 2)
    ELSE IF HasAt(s, j, <<QUOTE>>) THEN CloseQuote(s, j + 1)
    ELSE 0

\* a CAPTION pattern with L" in place of L?"
CaptionMatchWideOnly(line) ==
    LET i == SkipBlank(line, 1)
        j == SkipBlank(line, i + 7)
        e == IF HasAt(line, i, S_CAPTION) /\ j > i + 7
                /\ HasAt(line, j, <<CHAR_L, QUOTE>>)
             THEN LiteralEnd(line, j) ELSE 0
    IN  [ok |-> e # 0,
         g1 |-> IF e # 0 THEN S_CAPTION ELSE <<>>,
         g2 |-> IF e # 0 THEN SubSeq(line, j, e) ELSE <<>>]

\* Line 39: re.match(r'^[\t ]*(CAPTION)[\t ]+(L?"(.*?("")*)*?")', line)
CaptionMatch(line) ==
    LET i == SkipBlank(line, 1)
        j == SkipBlank(line, i + 7)
        e == IF HasAt(line, i, S_CAPTION) /\ j > i + 7
             THEN LiteralEnd(line, j) ELSE 0
    IN  [ok |-> e # 0,
         g1 |-> IF e # 0 THEN S_CAPTION ELSE <<>>,
         g2 |-> IF e # 0 THEN SubSeq(line, j, e) ELSE <<>>]

\* an item pattern without the leading [\t ]*
ItemMatchNoIndent(line) ==
    LET w == SkipWord(line, 1)
        j == SkipBlank(line, w)
        e == IF w > 1 /\ j > w THEN LiteralEnd(line, j) ELSE 0
        k == IF e # 0 /\ HasAt(line, e + 1, <<COMMA>>)
             THEN SkipBlank(line, e + 2) ELSE 0
        k2 == IF k # 0 THEN SkipWord(line, k) ELSE 0
    IN  [ok |-> e # 0,
         g1 |-> IF e # 0 THEN SubSeq(line, 1, w - 1) ELSE <<>>,
         g2 |-> IF e # 0 THEN SubSeq(line, j, e) ELSE <<>>,
         g6 |-> IF k2 > k THEN Some(SubSeq(line, k, k2 - 1)) ELSE None]

\* Line 46: re.match(r'^[\t ]*(\w+)[\t ]+(L?"([^"]*?("")*)*?")
\*                     (,[\t ]*(\w+)){0,1}', line)
\* g6 is None when the optional ', id' is absent.
ItemMatch(line) ==
    LET i == SkipBlank(line, 1)
        w == SkipWord(line, i)
        j == SkipBlank(line, w)
        e == IF w > i /\ j > w THEN LiteralEnd(line, j) ELSE 0
        k == IF e # 0 /\ HasAt(line, e + 1, <<COMMA>>)
             THEN SkipBlank(line, e + 2) ELSE 0
        k2 == IF k # 0 THEN SkipWord(line, k) ELSE 0
    IN  [ok |-> e # 0,
         g1 |-> IF e # 0 THEN SubSeq(line, i, w - 1) ELSE <<>>,
         g2 |-> IF e # 0 THEN SubSeq(line, j, e) ELSE <<>>,
         g6 |-> IF k2 > k THEN Some(SubSeq(line, k, k2 - 1)) ELSE None]

\* a search that takes an unterminated literal too: from the first quote to
\* the last quote, or to the end of the line when no second quote follows
SearchLiteralOpenEnded(line) ==
    LET q == NextQuote(line, 1)
        l == LastQuote(line)
        st == IF q > 1 /\ line[q - 1] = CHAR_L THEN q - 1 ELSE q
        en == IF l > q THEN l ELSE Len(line)
    IN  [ok |-> q # 0, g0 |-> IF q # 0 THEN SubSeq(line, st, en) ELSE <<>>]

\* a search with a lazy body: from the first quote to the next one
SearchLiteralLazy(line) ==
    LET q == NextQuote(line, 1)
        l == IF q = 0 THEN 0 ELSE NextQuote(line, q + 1)
        ok == q # 0 /\ l > q
        st == IF q > 1 /\ line[q - 1] = CHAR_L THEN q - 1 ELSE q
    IN  [ok |-> ok, g0 |-> IF ok THEN SubSeq(line, st, l) ELSE <<>>]

\* Line 53: re.search(r'(L?"(.*)")', line): the leftmost start, which is
\* the first quote of the line or the L right before it, and the greedy
\* .* runs to the last quote of the line.
SearchLiteral(line) ==
    LET q == NextQuote(line, 1)
        l == LastQuote(line)
        ok == q # 0 /\ l > q
        st == IF q > 1 /\ line[q - 1] = CHAR_L THEN q - 1 ELSE q
    IN  [ok |-> ok, g0 |-> IF ok THEN SubSeq(line, st, l) ELSE <<>>]

\* a bare-identifier pattern with no comment after the word
BareIdMatchNoComment(line) ==
    LET i == SkipBlank(line, 1)
        w == SkipWord(line, i)
        j == SkipBlank(line, w)
        ok == w > i /\ j = Len(line) + 1
    IN  [ok |-> ok, g1 |-> IF ok THEN SubSeq(line, i, w - 1) ELSE <<>>]

\* Line 57: re.match(r'^[\t ]*(\w+)[\t ]*(\/\/.*)*$', line)
BareIdMatch(line) ==
    LET i == SkipBlank(line, 1)
        w == SkipWord(line, i)
        j == SkipBlank(line, w)
        ok == w > i /\ (j = Len(line) + 1 \/ HasAt(line, j, <<SLASH, SLASH>>))
    IN  [ok |-> ok, g1 |-> IF ok THEN SubSeq(line, i, w - 1) ELSE <<>>]

\* a start-of-line literal that may lack its closing quote
StartLiteralMatchOpenEnded(line) ==
    LET i == SkipBlank(line, 1)
        q == IF HasAt(line, i, <<CHAR_L, QUOTE>>) THEN i + 1
             ELSE IF HasAt(line, i, <<QUOTE>>) THEN i
             ELSE 0
        l == LastQuote(line)
        en == IF l > q THEN l ELSE Len(line)
    IN  [ok |-> q # 0, g1 |-> IF q # 0 THEN SubSeq(line, i, en) ELSE <<>>]

\* Line 61: re.match(r'^[\t ]*(L?"(.*)")', line)
StartLiteralMatch(line) ==
    LET i == SkipBlank(line, 1)
        q == IF HasAt(line, i, <<CHAR_L, QUOTE>>) THEN i + 1
             ELSE IF HasAt(line, i, <<QUOTE>>) THEN i
             ELSE 0
        l == LastQuote(line)
        \* L" with no later quote: L? gives the L back, and then " is not at i
        ok == q # 0 /\ l > q
    IN  [ok |-> ok, g1 |-> IF ok THEN SubSeq(line, i, l) ELSE <<>>]

\* Lines 71-75: decoding the raw literal.
\* line 71: str.startswith('L')
IsWide(s) == HasAt(s, 1, <<CHAR_L>>)

\* line 72: re.sub(r'^L?"(.*)"$', r'\1', str); a str the pattern does not
\* match is left as it is
StripQuotes(s) ==
    LET o == IF HasAt(s, 1, <<CHAR_L, QUOTE>>) /\ Len(s) >= 3 /\ s[Len(s)] = QUOTE
             THEN 2
             ELSE IF HasAt(s, 1, <<QUOTE>>) /\ Len(s) >= 2 /\ s[Len(s)] = QUOTE
             THEN 1
             ELSE 0
    IN  IF o = 0 THEN s ELSE SubSeq(s, o + 1, Len(s) - 1)

\* line 73: the four replacements, one after the other
Unescape(s) ==
    Replace(Replace(Replace(Replace(s, ESC_r, <<CR>>), ESC_n, <<LF>>),
                    ESC_t, <<TAB>>), ESC_quote, <<QUOTE>>)

\* a digit value that takes a-f with the offset of A-F
HexDigitValueUpperOnly(c) ==
    IF c \in 48..57 THEN c - 48 ELSE c - 55

\* int(c, 16) of one digit
HexDigitValue(c) ==
    IF c \in 48..57 THEN c - 48
    ELSE IF c \in 65..70 THEN c - 55
    ELSE c - 87

\* int(match.group(1), 16)
RECURSIVE HexValue(_)
HexValue(h) ==
    IF h = <<>> THEN 0
    ELSE 16 * HexValue(SubSeq(h, 1, Len(h) - 1)) + HexDigitValue(h[Len(h)])

\* \\x([0-9a-fA-F]{4}) matches at i
HexEscapeAt(s, i) ==
    /\ HasAt(s, i, <<BSLASH, CHAR_x>>)
    /\ i + 1 + HexDigits <= Len(s)
    /\ \A k \in 1..HexDigits : IsHex(s[i + 1 + k])

\* line 75: re.sub(r'\\x([0-9a-fA-F]{4})', lambda match: chr(int(...)), str).
\* exc tells that chr() raised ValueError on one of the matches.
RECURSIVE HexSubFrom(_, _)
HexSubFrom(s, i) ==
    IF i > Len(s) THEN [str |-> <<>>, exc |-> FALSE]
    ELSE IF HexEscapeAt(s, i)
         THEN LET v == HexValue(SubSeq(s, i + 2, i + 1 + HexDigits))
                  r == HexSubFrom(s, i + 2 + HexDigits)
              IN  [str |-> <<v>> \o r.str, exc |-> r.exc \/ v > MaxCodePoint]
         ELSE LET r == HexSubFrom(s, i + 1)
              IN  [str |-> <<s[i]>> \o r.str, exc |-> r.exc]

HexSub(s) == HexSubFrom(s, 1)

\* a decoding that runs the hex substitution on every literal
DecodeHexAlways(orig) == HexSub(Unescape(StripQuotes(orig)))

\* lines 69-75 for one raw literal
Decode(orig) ==
    LET wide == IsWide(orig)
        str == Unescape(StripQuotes(orig))
    IN  IF wide THEN HexSub(str) ELSE [str |-> str, exc |-> FALSE]


\* ----------------------------------------------------------------------
\* The menu widgets of menus.py.  A menu is named by its number; the menus of
\* MenuTree are the ones the handlers are run on.
\* ----------------------------------------------------------------------
\* the MenuBar is the root of the tree of menus
MenuBar == 1

\* MenuItem.__init__: the hotkey of the name, the action, the submenu and
\* the grayed class; an item is built with an action or with a submenu
MenuItem(hotkey, action, submenu, grayed) ==
    [class |-> "MenuItem", hotkey |-> hotkey, action |-> action,
     submenu |-> submenu, grayed |-> grayed]

\* Separator.__init__: not a MenuItem; hotkey, action and submenu are None
Separator ==
    [class |-> "Separator", hotkey |-> None, action |-> FALSE,
     submenu |-> None, grayed |-> FALSE]

\* Menu.__init__, self.items: the items of each menu.  TRUE for action is
\* a callable, FALSE is None.
MenuTree == <<
    \* 1, the menu bar: File, Edit
    << MenuItem(Some(70), FALSE, Some(2), FALSE),
       MenuItem(Some(69), FALSE, Some(3), FALSE) >>,
    \* 2, File: New, Recent >, a separator, Print (grayed), eXport >
    << MenuItem(Some(78), TRUE, None, FALSE),
       MenuItem(Some(82), FALSE, Some(4), FALSE),
       Separator,
       MenuItem(Some(80), TRUE, None, TRUE),
       MenuItem(Some(88), FALSE, Some(5), FALSE) >>,
    \* 3, Edit: Undo, Goto > (grayed)
    << MenuItem(Some(85), TRUE, None, FALSE),
       MenuItem(Some(71), FALSE, Some(6), TRUE) >>,
    \* 4, Recent: a file
    << MenuItem(Some(65), TRUE, None, FALSE) >>,
    \* 5, Export: one format, with no hotkey
    << MenuItem(None, TRUE, None, FALSE) >>,
    \* 6, Goto: a line
    << MenuItem(Some(76), TRUE, None, FALSE) >>
>>

Menus == DOMAIN MenuTree

\* str.lower() of a character (the ASCII part of it)
Lower(c) == IF c \in 65..90 THEN c + 32 ELSE c

\* events.Key: the key, and the character of a printable key
Key(k) == [key |-> k, character |-> None]
Printable(c) == [key |-> "character", character |-> Some(c)]
\* Key.is_printable
IsPrintable(event) == event.character # None

\* the keys the menus are sent: the arrows, escape, a key that is neither,
\* and characters that are the hotkey of an item, in either case, or of none
MenuKeys == {Key("up"), Key("down"), Key("escape"), Key("tab"),
             Printable(110), Printable(82), Printable(122)}

\* lines 89-96 with a wrap that tests one index further
FocusIndexWrapLate(key, focus_index_m, len) ==
    CASE key = "up" ->
            IF focus_index_m - 1 < 0 - 1 THEN len - 1 ELSE focus_index_m - 1
      [] key = "down" ->
            IF focus_index_m + 1 >= len + 1 THEN 0 ELSE focus_index_m + 1
      [] OTHER -> focus_index_m

\* lines 89-96: focus_index after a key, in a menu of len items
FocusIndex(key, focus_index_m, len) ==
    CASE key = "up" ->
            IF focus_index_m - 1 < 0 THEN len - 1 ELSE focus_index_m - 1
      [] key = "down" ->
            IF focus_index_m + 1 >= len THEN 0 ELSE focus_index_m + 1
      [] OTHER -> focus_index_m

\* lines 104-109: the first MenuItem whose hotkey is the character, in
\* either case; 0 when there is none
RECURSIVE HotkeyItemFrom(_, _, _)
HotkeyItemFrom(items, character, i) ==
    IF i > Len(items) THEN 0
    ELSE IF /\ items[i].class = "MenuItem"
            /\ items[i].hotkey # None
            /\ character # None
            /\ Lower(items[i].hotkey[1]) = Lower(character[1])
         THEN i
         ELSE HotkeyItemFrom(items, character, i + 1)

HotkeyItem(items, character) == HotkeyItemFrom(items, character, 1)

\* Menu.close, lines 206-213, on the display of every menu: the submenus of
\* the items are closed first, and every menu but the MenuBar is hidden
RECURSIVE close(_, _), CloseSubmenus(_, _, _)
close(displays, m) ==
    LET closed == CloseSubmenus(displays, m, 1)
    IN  IF m # MenuBar THEN [closed EXCEPT ![m] = FALSE] ELSE closed

\* lines 208-210, from item i on
CloseSubmenus(displays, m, i) ==
    IF i > Len(MenuTree[m]) THEN displays
    ELSE LET item == MenuTree[m][i]
         IN  CloseSubmenus(IF item.submenu # None
                              THEN close(displays, item.submenu[1])
                              ELSE displays,
                           m, i + 1)

\* lines 123-125: the menu with no parent_menu above m
RECURSIVE RootMenu(_, _)
RootMenu(parents, m) ==
    IF parents[m] # None THEN RootMenu(parents, parents[m][1]) ELSE m

\* Menu.open, lines 134-140: the menu is displayed and tied to its parent
open(widgets, m, parent) ==
    [display     |-> [widgets.display EXCEPT ![m] = TRUE],
     parent_menu |-> [widgets.parent_menu EXCEPT ![m] = Some(parent)]]

\* lines 112-132 with the submenu opened among the open ones
ButtonPressedKeepsSiblings(widgets, m, i) ==
    LET button == MenuTree[m][i]
    IN  IF button.class # "MenuItem" THEN widgets
        ELSE IF button.grayed THEN widgets
        ELSE IF button.action
             THEN [widgets EXCEPT
                     !.display = close(@, RootMenu(widgets.parent_menu, m))]
        ELSE IF button.submenu # None
             THEN LET was_open == widgets.display[button.submenu[1]]
                      closed == [widgets EXCEPT
                                   !.display = close(@, button.submenu[1])]
                  IN  IF ~was_open THEN open(closed, button.submenu[1], m)
                      ELSE closed
        ELSE widgets

\* Menu.on_button_pressed, lines 112-132, on the display and the
\* parent_menu of every menu
ButtonPressed(widgets, m, i) ==
    LET button == MenuTree[m][i]
    IN  IF button.class # "MenuItem" THEN widgets
        ELSE IF button.grayed THEN widgets
        ELSE IF button.action
             THEN [widgets EXCEPT
                     !.display = close(@, RootMenu(widgets.parent_menu, m))]
        ELSE IF button.submenu # None
             THEN LET was_open == widgets.display[button.submenu[1]]
                      closed == [widgets EXCEPT
                                   !.display = CloseSubmenus(@, m, 1)]
                  IN  IF ~was_open THEN open(closed, button.submenu[1], m)
                      ELSE closed
        ELSE widgets

\* ----------------------------------------------------------------------
\* The color grid of edit_colors.py.  A color is the number its "#RRGGBB"
\* string writes in hexadecimal; a button is named by its index in
\* _color_by_button, from 0.
\* ----------------------------------------------------------------------
\* lines 30-37
basic_colors == <<
    16744576, 16777088,  8454016,    65408,  8454143,    33023, 16744640, 16744703,
    16711680, 16776960,  8453888,    65344,    65535,    32960,  8421568, 16711935,
     8405056, 16744512,    65280,    32896,    16512,  8421631,  8388672, 16711808,
     8388608, 16744448,    32768,    32832,      255,      160,  8388736,  8388863,
     4194304,  8404992,    16384,    16448,      128,       64,  4194368,  4194432,
           0,  8421376,  8421440,  8421504,  4227200, 12632256,  4194368, 16777215 >>

\* lines 38-41
custom_colors == <<
    16777215, 16777215, 16777215, 16777215, 16777215, 16777215, 16777215, 16777215,
    16777215, 16777215, 16777215, 16777215, 16777215, 16777215, 16777215, 16777215 >>

\* line 43
num_colors_per_row == 8

\* a row and a half of the basic colors: a grid whose last row is not full
MaxShortGrid == 12
short_colors == SubSeq(basic_colors, 1, MaxShortGrid)

\* the lists a ColorGrid is built on
ColorLists == {basic_colors, custom_colors, short_colors}

\* the keys the grid is sent: those of lines 69-82 and one that is none
GridKeys == {"up", "down", "left", "right", "home", "end", "space", "enter",
             "tab"}

\* query_one(".focused", Button): the first button of the class in the
\* order of the DOM, None for NoMatches
QueryOne(class) ==
    IF class = {} THEN None
    ELSE Some(CHOOSE b \in class : \A c \in class : b <= c)

\* _navigate_absolute, lines 109-117, on the buttons of class focused
navigate_absolute(focused_class, index, len) ==
    IF index < 0 \/ index >= len THEN focused_class
    ELSE ((focused_class \cup {index}) \ (0..(len - 1))) \cup {index}

\* lines 94-107 without the tests of the ends of a row
NavigateRelativeAcrossRows(focused_class, delta, len) ==
    LET focused_button == QueryOne(focused_class)
    IN  IF focused_button = None THEN focused_class
        ELSE navigate_absolute(focused_class, focused_button[1] + delta, len)

\* _navigate_relative, lines 94-107
navigate_relative(focused_class, delta, len) ==
    LET focused_button == QueryOne(focused_class)
    IN  IF focused_button = None THEN focused_class
        ELSE LET index == focused_button[1]
             IN  IF delta = 0 - 1 /\ index % num_colors_per_row = 0
                    THEN focused_class
                 ELSE IF /\ delta = 1
                         /\ index % num_colors_per_row = num_colors_per_row - 1
                    THEN focused_class
                 ELSE navigate_absolute(focused_class, index + delta, len)

\* _select_focused_color, lines 84-92, on the classes and selected_color
select_focused_color(grid, color_list) ==
    LET focused_button == QueryOne(grid.focused)
    IN  IF focused_button = None THEN grid
        ELSE [grid EXCEPT
                !.selected = (@ \ @) \cup {focused_button[1]},
                !.selected_color = color_list[focused_button[1] + 1]]

\* ColorGrid.on_key, lines 67-82
GridKey(grid, key, color_list) ==
    LET len == Len(color_list)
    IN  CASE key = "up" ->
               [grid EXCEPT !.focused =
                    navigate_relative(@, 0 - num_colors_per_row, len)]
          [] key = "down" ->
               [grid EXCEPT !.focused =
                    navigate_relative(@, num_colors_per_row, len)]
          [] key = "left" ->
               [grid EXCEPT !.focused = navigate_relative(@, 0 - 1, len)]
          [] key = "right" ->
               [grid EXCEPT !.focused = navigate_relative(@, 1, len)]
          [] key = "home" ->
               [grid EXCEPT !.focused = navigate_absolute(@, 0, len)]
          [] key = "end" ->
               [grid EXCEPT !.focused = navigate_absolute(@, len - 1, len)]
          [] key \in {"space", "enter"} ->
               select_focused_color(grid, color_list)
          [] OTHER -> grid

\* ColorGrid.on_button_pressed, lines 119-126
GridButtonPressed(grid, button, color_list) ==
    select_focused_color(
        [grid EXCEPT !.selected_color = color_list[button + 1],
                     !.focused = (@ \ (0..(Len(color_list) - 1)))
                                    \cup {button}],
        color_list)

\* ----------------------------------------------------------------------
\* The state of the widgets.
\*   display, parent_menu, focus_index   the fields of every menu
\*   pressed        the Button.Pressed messages posted and not yet handled,
\*                  each the menu and the index of the item pressed
\*   colors, focused, selected, selected_color
\*                  the ColorGrid: _colors, the buttons that have the
\*                  classes focused and selected, and selected_color
\*   event          the event the last handler was called with
\* ----------------------------------------------------------------------
VARIABLES display, parent_menu, focus_index, pressed,
          colors, focused, selected, selected_color,
          event

menuVars == <<display, parent_menu, focus_index, pressed>>
gridVars == <<colors, focused, selected, selected_color>>

\* no handler has run yet
NoEvent == [target |-> 0, name |-> "none", key |-> "", character |-> None,
            button |-> 0]

\* Menu.__init__ and mount_items, lines 41-67: the submenus are closed as
\* they are mounted, the MenuBar is displayed, no menu has a parent yet
MenusMounted ==
    /\ display = [m \in Menus |-> m = MenuBar]
    /\ parent_menu = [m \in Menus |-> None]
    /\ focus_index = [m \in Menus |-> 0]
    /\ pressed = <<>>

\* ColorGrid.__init__ and on_mount, lines 48-65: a button for each color,
\* none of class focused or selected
GridMounted(color_list) ==
    /\ colors = color_list
    /\ focused = {}
    /\ selected = {}
    /\ selected_color = color_list[1]

\* the widgets as they are mounted, no event handled
WidgetsMounted ==
    /\ MenusMounted
    /\ GridMounted(basic_colors)
    /\ event = NoEvent


\* ----------------------------------------------------------------------
\* The scan as a state machine.  pc is the position in parse_rc_file:
\*   "start"  entered, nothing run yet
\*   "loop"   at the head of the for loop of line 15
\*   "emit"   at line 68, the dispatch of lines 16-66 done
\*   "done"   returned (line 81)
\*   "raised" left by an exception
\* lines and idx are the iterator of line 15: lines[idx] is the next line.
\* menu, dialog and stringtable are False or None when FALSE.
\* ----------------------------------------------------------------------
VARIABLES rc_file_text, pc, lines, idx,
          strings, menu, dialog, stringtable, block_level,
          id_str, dialog_id, hint, orig_str

rcVars == <<rc_file_text, pc, lines, idx,
            strings, menu, dialog, stringtable, block_level,
            id_str, dialog_id, hint, orig_str>>

widgetVars == <<menuVars, gridVars, event>>

vars == <<rcVars, widgetVars>>

\* the source text of a list of lines: a line feed ends each line
RECURSIVE JoinLines(_)
JoinLines(ls) ==
    IF ls = <<>> THEN <<>> ELSE Head(ls) \o <<LF>> \o JoinLines(Tail(ls))

\* all sequences over S of length lo..hi
SeqsOf(S, lo, hi) == UNION {[1..n -> S] : n \in lo..hi}

\* The lines the scan is run on: the keywords that open and close the
\* constructs, the three grammars of lines 39, 46 and 53-61, and lines that
\* match none or only part of one.
LinePool == {
    S_STRINGTABLE,
    S_BEGIN,
    S_END,
    <<77, 32, 77, 69, 78, 85>>,                           \* M MENU
    <<68, 32, 68, 73, 65, 76, 79, 71, 32, 48>>,           \* D DIALOG 0
    <<67, 65, 80, 84, 73, 79, 78, 32, 34, 84, 34>>,       \* CAPTION "T"
    <<80, 32, 34, 97, 34, 44, 32, 73>>,                   \* P "a", I
    <<73, 32, 34, 97, 34>>,                               \* I "a"
    <<73>>,                                               \* I
    <<73, 32, 34, 97>>,                                   \* I "a
    <<70, 79, 78, 84, 32, 56, 44, 32, 34, 83, 34>>,       \* FONT 8, "S"
    <<66, 69, 71, 73, 78, 32, 47, 47, 32, 99>>,           \* BEGIN // c
    <<73, 32, 76, 34, 92, 120, 70, 70, 70, 70, 52, 49, 34>>  \* I L"\xFFFF41"
}

\* the longest input of Spec, in lines
MaxLines == 3

\* the state at entry, before line 10 has run
LocalsAtEntry ==
    /\ pc = "start"
    /\ lines = <<>>
    /\ idx = 1
    /\ strings = <<>>
    /\ menu = FALSE
    /\ dialog = FALSE
    /\ stringtable = FALSE
    /\ block_level = 0
    /\ id_str = None
    /\ dialog_id = None
    /\ hint = None
    /\ orig_str = None

\* the scan not yet entered, beside the widgets as they are mounted
InitLocals ==
    /\ LocalsAtEntry
    /\ WidgetsMounted

Init ==
    /\ rc_file_text \in {JoinLines(ls) : ls \in SeqsOf(LinePool, 0, MaxLines)}
    /\ InitLocals

\* lines 10-15: the locals are bound and the text is split
Enter ==
    /\ pc = "start"
    /\ strings' = <<>>
    /\ menu' = FALSE
    /\ dialog' = FALSE
    /\ stringtable' = FALSE
    /\ block_level' = 0
    /\ id_str' = None
    /\ dialog_id' = None
    /\ hint' = None
    /\ orig_str' = None
    /\ lines' = SplitLines(rc_file_text)
    /\ idx' = 1
    /\ pc' = "loop"
    /\ UNCHANGED <<rc_file_text, widgetVars>>

\* str() of a value that may be None, as an f-string formats it
Format(o) == IF o = None THEN S_None ELSE o[1]

\* a tracking whose END at depth 0 leaves menu set
TrackKeepsMenu(norm_line, m, d, did, st, b) ==
    LET menu1 == IF EndsWith(norm_line, S_MENU) THEN TRUE ELSE m
        dialog_match == DialogMatch(norm_line)
        dialog_id1 == IF dialog_match.ok THEN Some(dialog_match.g1) ELSE did
        dialog1 == IF dialog_match.ok THEN TRUE ELSE d
        stringtable1 == IF norm_line = S_STRINGTABLE THEN TRUE ELSE st
        block1 == IF norm_line = S_BEGIN THEN b + 1 ELSE b
        block2 == IF norm_line = S_END THEN block1 - 1 ELSE block1
        reset == norm_line = S_END /\ block2 = 0
    IN  [menu |-> menu1,
         dialog |-> IF reset THEN FALSE ELSE dialog1,
         dialog_id |-> IF reset THEN None ELSE dialog_id1,
         stringtable |-> IF reset THEN FALSE ELSE stringtable1,
         block_level |-> block2]

\* a reset on every END, whatever depth it leaves
TrackResetOnEveryEnd(norm_line, m, d, did, st, b) ==
    LET menu1 == IF EndsWith(norm_line, S_MENU) THEN TRUE ELSE m
        dialog_match == DialogMatch(norm_line)
        dialog_id1 == IF dialog_match.ok THEN Some(dialog_match.g1) ELSE did
        dialog1 == IF dialog_match.ok THEN TRUE ELSE d
        stringtable1 == IF norm_line = S_STRINGTABLE THEN TRUE ELSE st
        block1 == IF norm_line = S_BEGIN THEN b + 1 ELSE b
        block2 == IF norm_line = S_END THEN block1 - 1 ELSE block1
        reset == norm_line = S_END
    IN  [menu |-> IF reset THEN FALSE ELSE menu1,
         dialog |-> IF reset THEN FALSE ELSE dialog1,
         dialog_id |-> IF reset THEN None ELSE dialog_id1,
         stringtable |-> IF reset THEN FALSE ELSE stringtable1,
         block_level |-> block2]

\* Lines 19-36: the construct flags and the depth after the line norm_line,
\* from the flags m, d, did, st and the depth b before it.
Track(norm_line, m, d, did, st, b) ==
    LET menu1 == IF EndsWith(norm_line, S_MENU) THEN TRUE ELSE m
        dialog_match == DialogMatch(norm_line)
        dialog_id1 == IF dialog_match.ok THEN Some(dialog_match.g1) ELSE did
        dialog1 == IF dialog_match.ok THEN TRUE ELSE d
        stringtable1 == IF norm_line = S_STRINGTABLE THEN TRUE ELSE st
        block1 == IF norm_line = S_BEGIN THEN b + 1 ELSE b
        block2 == IF norm_line = S_END THEN block1 - 1 ELSE block1
        reset == norm_line = S_END /\ block2 = 0
    IN  [menu |-> IF reset THEN FALSE ELSE menu1,
         dialog |-> IF reset THEN FALSE ELSE dialog1,
         dialog_id |-> IF reset THEN None ELSE dialog_id1,
         stringtable |-> IF reset THEN FALSE ELSE stringtable1,
         block_level |-> block2]

\* a choice with no caption branch: a dialog line at depth 0 goes to the
\* fallback
BranchNoCaption(m, d, b) ==
    IF (m \/ d) /\ b # 0 THEN "item" ELSE "fallback"

\* Lines 38, 45 and 52: the branch a line is handled by, from the flags and
\* the depth after the line's own tracking.  'not block_level' and
\* 'block_level' test the integer for zero.
Branch(m, d, b) ==
    IF d /\ b = 0 THEN "caption"
    ELSE IF (m \/ d) /\ b # 0 THEN "item"
    ELSE "fallback"

\* Lines 38-66: the three branches.  The id, hint and raw literal after the
\* line, from the tracked state t and the id, hint and literal before it.
Dispatched(line, t, id0, hint0, orig0) ==
    IF Branch(t.menu, t.dialog, t.block_level) = "caption"
    THEN LET match == CaptionMatch(line) IN
         IF match.ok
         THEN [id_str |-> Some(Format(t.dialog_id) \o <<58>> \o match.g1),
               hint |-> Some(Format(t.dialog_id) \o <<SPACE>> \o match.g1),
               orig_str |-> Some(match.g2)]
         ELSE [id_str |-> id0, hint |-> hint0, orig_str |-> orig0]
    ELSE IF Branch(t.menu, t.dialog, t.block_level) = "item"
    THEN LET match == ItemMatch(line) IN
         IF match.ok
         THEN [id_str |-> match.g6,
               hint |-> IF Truthy(match.g6)
                        THEN Some(match.g1 \o <<SPACE>> \o match.g6[1])
                        ELSE Some(match.g1),
               orig_str |-> Some(match.g2)]
         ELSE [id_str |-> id0, hint |-> hint0, orig_str |-> orig0]
    ELSE LET search == SearchLiteral(line)
             bare == BareIdMatch(line)
             start == StartLiteralMatch(line)
         IN  IF search.ok
             THEN [id_str |-> id0, hint |-> hint0, orig_str |-> Some(search.g0)]
             ELSE IF bare.ok
             THEN [id_str |-> Some(bare.g1), hint |-> hint0, orig_str |-> orig0]
             ELSE IF Truthy(id0) /\ start.ok
             THEN [id_str |-> id0, hint |-> id0, orig_str |-> Some(start.g1)]
             ELSE [id_str |-> None, hint |-> hint0, orig_str |-> orig0]

\* a dispatch that matches the patterns of lines 39-61 on the normalised
\* line in place of the raw line
DispatchOnNormLine ==
    /\ pc = "loop"
    /\ idx <= Len(lines)
    /\ LET line == lines[idx]
           t == Track(NormLine(line), menu, dialog, dialog_id, stringtable,
                      block_level)
           p == Dispatched(NormLine(line), t, id_str, hint, orig_str)
       IN  /\ menu' = t.menu
           /\ dialog' = t.dialog
           /\ dialog_id' = t.dialog_id
           /\ stringtable' = t.stringtable
           /\ block_level' = t.block_level
           /\ id_str' = p.id_str
           /\ hint' = p.hint
           /\ orig_str' = p.orig_str
    /\ pc' = "emit"
    /\ UNCHANGED <<rc_file_text, lines, idx, strings, widgetVars>>

\* lines 15-66 for the next line of the text
Dispatch ==
    /\ pc = "loop"
    /\ idx <= Len(lines)
    /\ LET line == lines[idx]
           t == Track(NormLine(line), menu, dialog, dialog_id, stringtable,
                      block_level)
           p == Dispatched(line, t, id_str, hint, orig_str)
       IN  /\ menu' = t.menu
           /\ dialog' = t.dialog
           /\ dialog_id' = t.dialog_id
           /\ stringtable' = t.stringtable
           /\ block_level' = t.block_level
           /\ id_str' = p.id_str
           /\ hint' = p.hint
           /\ orig_str' = p.orig_str
    /\ pc' = "emit"
    /\ UNCHANGED <<rc_file_text, lines, idx, strings, widgetVars>>

\* an append that drops a string the output already holds
AppendUnique(strs, s) ==
    IF \E k \in 1..Len(strs) : strs[k] = s THEN strs ELSE Append(strs, s)

\* an insertion at the head of the list
InsertFirst(strs, s) == <<s>> \o strs

\* line 77: strings.append(str)
AppendString(strs, s) == Append(strs, s)

\* an emission that clears the literal alone and keeps the id and the hint
EmitKeepsIdAndHint ==
    /\ pc = "emit"
    /\ IF Truthy(orig_str)
       THEN LET r == Decode(orig_str[1]) IN
            IF r.exc
            THEN /\ pc' = "raised"
                 /\ UNCHANGED <<strings, id_str, hint, orig_str, idx>>
            ELSE /\ strings' = AppendString(strings, r.str)
                 /\ orig_str' = None
                 /\ idx' = idx + 1
                 /\ pc' = "loop"
                 /\ UNCHANGED <<id_str, hint>>
       ELSE /\ idx' = idx + 1
            /\ pc' = "loop"
            /\ UNCHANGED <<strings, id_str, hint, orig_str>>
    /\ UNCHANGED <<rc_file_text, lines, menu, dialog, stringtable, block_level,
                   dialog_id, widgetVars>>

\* lines 68-79: a literal the dispatch left is decoded and appended, and the
\* scan moves to the next line
Emit ==
    /\ pc = "emit"
    /\ IF Truthy(orig_str)
       THEN LET r == Decode(orig_str[1]) IN
            IF r.exc
            THEN /\ pc' = "raised"
                 /\ UNCHANGED <<strings, id_str, hint, orig_str, idx>>
            ELSE /\ strings' = AppendString(strings, r.str)
                 /\ id_str' = None
                 /\ hint' = None
                 /\ orig_str' = None
                 /\ idx' = idx + 1
                 /\ pc' = "loop"
       ELSE /\ idx' = idx + 1
            /\ pc' = "loop"
            /\ UNCHANGED <<strings, id_str, hint, orig_str>>
    /\ UNCHANGED <<rc_file_text, lines, menu, dialog, stringtable, block_level,
                   dialog_id, widgetVars>>

\* line 81: the loop is over and strings is returned
Return ==
    /\ pc = "loop"
    /\ idx > Len(lines)
    /\ pc' = "done"
    /\ UNCHANGED <<rc_file_text, lines, idx, strings, menu, dialog,
                   stringtable, block_level, id_str, dialog_id, hint, orig_str,
                   widgetVars>>

Next == Enter \/ Dispatch \/ Emit \/ Return

Spec == Init /\ [][Next]_vars

\* ----------------------------------------------------------------------
\* Nested constructs: the construct keywords alone, to a depth the general
\* pool does not reach.
\* ----------------------------------------------------------------------
NestPool == {
    S_STRINGTABLE,
    S_BEGIN,
    S_END,
    <<77, 32, 77, 69, 78, 85>>,                           \* M MENU
    <<68, 32, 68, 73, 65, 76, 79, 71, 32, 48>>            \* D DIALOG 0
}

\* the longest input of SpecNest, in lines
MaxNestLines == 5

InitNest ==
    /\ rc_file_text \in {JoinLines(ls) : ls \in SeqsOf(NestPool, 0, MaxNestLines)}
    /\ InitLocals

SpecNest == InitNest /\ [][Next]_vars

\* ----------------------------------------------------------------------
\* String-table inputs.  The literals are written from plain strings the
\* way an RC file writes them: in double quotes, with CR, LF, TAB and the
\* double quote as the escapes \r, \n, \t and \".
\* ----------------------------------------------------------------------
RcEscapeChar(c) ==
    IF c = CR THEN <<BSLASH, 114>>
    ELSE IF c = LF THEN <<BSLASH, 110>>
    ELSE IF c = TAB THEN <<BSLASH, 116>>
    ELSE IF c = QUOTE THEN <<BSLASH, QUOTE>>
    ELSE <<c>>

RECURSIVE RcEscape(_)
RcEscape(s) ==
    IF s = <<>> THEN <<>> ELSE RcEscapeChar(Head(s)) \o RcEscape(Tail(s))

RcLiteral(s) == <<QUOTE>> \o RcEscape(s) \o <<QUOTE>>

\* the longest plain string, in characters
MaxPlainLen == 2

\* a, CR, LF, TAB, the double quote and the backslash
PlainAlphabet == {97, CR, LF, TAB, QUOTE, BSLASH}
PlainStrings == SeqsOf(PlainAlphabet, 0, MaxPlainLen)

S_IDS == <<73, 68, 83>>                                  \* IDS

\* IDS "text"
EntryLine(s) == S_IDS \o <<SPACE>> \o RcLiteral(s)

\* one string-table line holding the literal of s
RoundTripText(s) == JoinLines(<<EntryLine(s)>>)

InitRoundTrip ==
    /\ rc_file_text \in {RoundTripText(s) : s \in PlainStrings}
    /\ InitLocals

SpecRoundTrip == InitRoundTrip /\ [][Next]_vars

\* STRINGTABLE, BEGIN, one entry line per text, END
MaxEntries == 2
EntryTexts == {<<97>>, <<98, LF>>, <<QUOTE, 99>>, <<>>}

RECURSIVE EntryLines(_)
EntryLines(ts) ==
    IF ts = <<>> THEN <<>> ELSE <<EntryLine(Head(ts))>> \o EntryLines(Tail(ts))

StringTableText(ts) ==
    JoinLines(<<S_STRINGTABLE, S_BEGIN>> \o EntryLines(ts) \o <<S_END>>)

InitStringTable ==
    /\ rc_file_text \in {StringTableText(ts) : ts \in SeqsOf(EntryTexts, 1, MaxEntries)}
    /\ InitLocals

SpecStringTable == InitStringTable /\ [][Next]_vars

\* The two-line idiom: an identifier alone on its line, then a literal alone
\* on the next, at the top level or inside a STRINGTABLE block.
IdLines == {
    <<73, 68, 83, 95, 71>>,                               \* IDS_G
    <<32, 32, 73, 68, 83, 95, 71, 9>>                     \* IDS_G, indented
}
TwoLinePrefixes == {<<>>, <<S_STRINGTABLE, S_BEGIN>>}
TwoLineIndents == {<<>>, <<SPACE, SPACE>>}

TwoLineText(pre, idl, ind, s) ==
    JoinLines(pre \o <<idl, ind \o RcLiteral(s)>>)

InitTwoLine ==
    /\ rc_file_text \in {TwoLineText(pre, idl, ind, s) :
            pre \in TwoLinePrefixes, idl \in IdLines, ind \in TwoLineIndents,
            s \in PlainStrings}
    /\ InitLocals

SpecTwoLine == InitTwoLine /\ [][Next]_vars

\* An entry followed by a comment: IDS "text" // comment
CommentTexts == {
    <<>>,
    <<32, 110, 111, 116, 101>>,                           \* ' note'
    <<32, 115, 97, 121, 32, 34, 104, 105, 34>>,           \* ' say "hi"'
    <<32, 100, 111, 110, 34, 116>>                        \* ' don"t'
}

\* texts with no double quote in them
CommentedStrings == SeqsOf({97, LF, TAB}, 0, MaxPlainLen)

CommentText(s, c) ==
    JoinLines(<<EntryLine(s) \o <<SPACE, SLASH, SLASH>> \o c>>)

InitComment ==
    /\ rc_file_text \in {CommentText(s, c) : s \in CommentedStrings, c \in CommentTexts}
    /\ InitLocals

SpecComment == InitComment /\ [][Next]_vars

\* ----------------------------------------------------------------------
\* Wide literals.  A literal is written from atoms: an escape \xHHHH of a
\* code point, in upper or lower case digits, or a plain character.
\* ----------------------------------------------------------------------
HexChar(d, kind) ==
    IF d < 10 THEN 48 + d ELSE IF kind = "upper" THEN 55 + d ELSE 87 + d

Hex4(v, kind) ==
    <<HexChar(v \div 4096, kind), HexChar((v \div 256) % 16, kind),
      HexChar((v \div 16) % 16, kind), HexChar(v % 16, kind)>>

WideAtoms == {
    <<"upper", 65>>,                                      \* \x0041
    <<"upper", 66>>,                                      \* \x0042
    <<"lower", 233>>,                                     \* \x00e9
    <<"upper", 8364>>,                                    \* \x20AC
    <<"plain", 52>>                                       \* 4
}

\* the longest wide literal, in atoms
MaxAtoms == 3

AtomText(a) ==
    IF a[1] = "plain" THEN <<a[2]>> ELSE <<BSLASH, CHAR_x>> \o Hex4(a[2], a[1])

RECURSIVE AtomsText(_)
AtomsText(as) ==
    IF as = <<>> THEN <<>> ELSE AtomText(Head(as)) \o AtomsText(Tail(as))

\* the characters the atoms stand for
AtomsValue(as) == [k \in 1..Len(as) |-> as[k][2]]

\* IDS L"..."
WideText(as) ==
    JoinLines(<<S_IDS \o <<SPACE, CHAR_L, QUOTE>> \o AtomsText(as) \o <<QUOTE>>>>)

InitWide ==
    /\ rc_file_text \in {WideText(as) : as \in SeqsOf(WideAtoms, 1, MaxAtoms)}
    /\ InitLocals

SpecWide == InitWide /\ [][Next]_vars

\* ----------------------------------------------------------------------
\* MENU constructs: a header, BEGIN, a body of POPUP and MENUITEM lines in
\* which every POPUP opens a nested BEGIN ... END, and the closing END.
\* ----------------------------------------------------------------------
L_MenuHeader == <<73, 68, 82, 95, 77, 65, 73, 78, 77, 69, 78, 85, 32, 77, 69, 78, 85>>
L_Popup == <<80, 79, 80, 85, 80, 32, 34, 38, 70, 105, 108, 101, 34>>
L_ItemOpen ==
    <<9, 77, 69, 78, 85, 73, 84, 69, 77, 32, 34, 38, 79, 112, 101, 110, 46, 46,
      46, 34, 44, 32, 73, 68, 95, 70, 73, 76, 69, 95, 79, 80, 69, 78>>
L_ItemExit ==
    <<32, 32, 32, 32, 77, 69, 78, 85, 73, 84, 69, 77, 32, 34, 69, 38, 120, 105,
      116, 34>>

\* IDR_MAINMENU MENU / POPUP "&File" / <tab>MENUITEM "&Open...", ID_FILE_OPEN /
\* <4 blanks>MENUITEM "E&xit"
MenuTokens == {L_Popup, L_ItemOpen, L_ItemExit, S_BEGIN, S_END}

\* the longest menu body, in lines
MaxMenuBody == 5

\* BEGINs minus ENDs among the first i lines
BodyDepth(b, i) ==
    Cardinality({k \in 1..i : b[k] = S_BEGIN}) -
    Cardinality({k \in 1..i : b[k] = S_END})

WellNested(b) ==
    /\ \A i \in 1..Len(b) :
        /\ b[i] = L_Popup => (i < Len(b) /\ b[i + 1] = S_BEGIN)
        /\ b[i] = S_BEGIN => (i > 1 /\ b[i - 1] = L_Popup)
        /\ BodyDepth(b, i) >= 0
    /\ BodyDepth(b, Len(b)) = 0

MenuBodies == {b \in SeqsOf(MenuTokens, 1, MaxMenuBody) : WellNested(b)}

MenuText(b) == JoinLines(<<L_MenuHeader, S_BEGIN>> \o b \o <<S_END>>)

InitMenu ==
    /\ rc_file_text \in {MenuText(b) : b \in MenuBodies}
    /\ InitLocals

SpecMenu == InitMenu /\ [][Next]_vars

\* the label a menu line carries, as a list of none or one
MenuLabel(line) ==
    IF line = L_Popup THEN <<(<<38, 70, 105, 108, 101>>)>>
    ELSE IF line = L_ItemOpen THEN <<(<<38, 79, 112, 101, 110, 46, 46, 46>>)>>
    ELSE IF line = L_ItemExit THEN <<(<<69, 38, 120, 105, 116>>)>>
    ELSE <<>>

RECURSIVE MenuLabels(_)
MenuLabels(ls) ==
    IF ls = <<>> THEN <<>> ELSE MenuLabel(Head(ls)) \o MenuLabels(Tail(ls))

\* ----------------------------------------------------------------------
\* DIALOG constructs: the declaration, statements before BEGIN, BEGIN,
\* lines of the block, END.  A CAPTION line may stand before or after BEGIN.
\* ----------------------------------------------------------------------
DialogDecls == {
    \* IDD_MYDIALOG DIALOGEX 0, 0, 200, 100
    <<73, 68, 68, 95, 77, 89, 68, 73, 65, 76, 79, 71, 32, 68, 73, 65, 76, 79,
      71, 69, 88, 32, 48, 44, 32, 48, 44, 32, 50, 48, 48, 44, 32, 49, 48, 48>>,
    \* IDD_MYDIALOG DIALOG 0, 0, 200, 100
    <<73, 68, 68, 95, 77, 89, 68, 73, 65, 76, 79, 71, 32, 68, 73, 65, 76, 79,
      71, 32, 48, 44, 32, 48, 44, 32, 50, 48, 48, 44, 32, 49, 48, 48>>
}
\* STYLE DS_MODALFRAME | WS_POPUP
L_Style ==
    <<83, 84, 89, 76, 69, 32, 68, 83, 95, 77, 79, 68, 65, 76, 70, 82, 65, 77,
      69, 32, 124, 32, 87, 83, 95, 80, 79, 80, 85, 80>>
\* FONT 8, "MS Sans Serif"
L_Font ==
    <<70, 79, 78, 84, 32, 56, 44, 32, 34, 77, 83, 32, 83, 97, 110, 115, 32, 83,
      101, 114, 105, 102, 34>>
\* <4 blanks>LTEXT "Name:",IDC_STATIC,7,7,50,8
L_LText ==
    <<32, 32, 32, 32, 76, 84, 69, 88, 84, 32, 34, 78, 97, 109, 101, 58, 34, 44,
      73, 68, 67, 95, 83, 84, 65, 84, 73, 67, 44, 55, 44, 55, 44, 53, 48, 44, 56>>
\* Some Title, and a title with // in it
S_SomeTitle == <<83, 111, 109, 101, 32, 84, 105, 116, 108, 101>>
DialogTitles == {S_SomeTitle, <<97, 47, 47, 98>>}

\* CAPTION "title", after the indent ind
CaptionLine(ind, title) ==
    ind \o S_CAPTION \o <<SPACE, QUOTE>> \o title \o <<QUOTE>>

\* the most lines before BEGIN, and the most inside the block
MaxDialogLines == 2

DialogText(decl, pre, inner) ==
    JoinLines(<<decl>> \o pre \o <<S_BEGIN>> \o inner \o <<S_END>>)

InitDialog ==
    /\ rc_file_text \in
         {DialogText(decl, pre, inner) :
            decl \in DialogDecls,
            pre \in UNION {SeqsOf({L_Style, L_Font, CaptionLine(<<>>, ti)},
                                  0, MaxDialogLines) : ti \in DialogTitles},
            inner \in UNION {SeqsOf({L_LText, CaptionLine(<<SPACE, SPACE>>, ti)},
                                    0, MaxDialogLines) : ti \in DialogTitles}}
    /\ InitLocals

SpecDialog == InitDialog /\ [][Next]_vars

\* how many of the lines ls are CAPTION lines of the title
CaptionCount(ls, title) ==
    Cardinality({i \in 1..Len(ls) :
        ls[i] \in {CaptionLine(<<>>, title), CaptionLine(<<SPACE, SPACE>>, title)}})

\* how many times s stands in the list strs
Occurrences(strs, s) == Cardinality({k \in 1..Len(strs) : strs[k] = s})

\* ----------------------------------------------------------------------
\* Texts with no quoted literal: construct keywords, identifiers, lines of
\* no grammar and lines with one double quote only, next to one line that
\* does hold a literal.
\* ----------------------------------------------------------------------
NoLiteralPool == {
    S_STRINGTABLE,
    S_BEGIN,
    S_END,
    <<77, 32, 77, 69, 78, 85>>,                           \* M MENU
    <<68, 32, 68, 73, 65, 76, 79, 71, 32, 48>>,           \* D DIALOG 0
    <<73>>,                                               \* I
    <<120, 32, 121>>,                                     \* x y
    <<73, 32, 34, 97>>,                                   \* I "a
    <<67, 65, 80, 84, 73, 79, 78, 32, 34, 84>>,           \* CAPTION "T
    <<80, 32, 97, 34, 44, 32, 73>>,                       \* P a", I
    <<73, 32, 34, 97, 34>>                                \* I "a"
}

\* the longest input of SpecNoLiteral, in lines
MaxNoLiteralLines == 3

InitNoLiteral ==
    /\ rc_file_text \in
         {JoinLines(ls) : ls \in SeqsOf(NoLiteralPool, 0, MaxNoLiteralLines)}
    /\ InitLocals

SpecNoLiteral == InitNoLiteral /\ [][Next]_vars

\* how many double quotes the line holds
QuoteCount(line) == Cardinality({k \in 1..Len(line) : line[k] = QUOTE})

\* ----------------------------------------------------------------------
\* Escapes.  The body of the literal of one string-table line, drawn from
\* the characters the escapes of line 73 are written with.
\* ----------------------------------------------------------------------
\* a, the backslash, r, n, t and the double quote
BodyAlphabet == {97, BSLASH, 114, 110, 116, QUOTE}

\* the longest body, in characters
MaxBodyLen == 3

Bodies == SeqsOf(BodyAlphabet, 0, MaxBodyLen)

\* IDS "body"
BodyText(body) ==
    JoinLines(<<S_IDS \o <<SPACE, QUOTE>> \o body \o <<QUOTE>>>>)

InitEscape ==
    /\ rc_file_text \in {BodyText(body) : body \in Bodies}
    /\ InitLocals

SpecEscape == InitEscape /\ [][Next]_vars

\* the body with the two-character sequences \r, \n, \t and then \" taken
\* for CR, LF, TAB and the double quote
EscapesDecoded(body) ==
    Replace(Replace(Replace(Replace(body, <<BSLASH, 114>>, <<CR>>),
                            <<BSLASH, 110>>, <<LF>>),
                    <<BSLASH, 116>>, <<TAB>>),
            <<BSLASH, QUOTE>>, <<QUOTE>>)

\* ----------------------------------------------------------------------
\* Hex escapes in narrow and in wide literals.  A literal is written from
\* atoms: an escape \xHHHH of a code point, the escape \t, or a plain
\* character; the code points 5C and 22 are the backslash and the quote.
\* ----------------------------------------------------------------------
HexAtoms == {
    <<"hex", 65>>,                                        \* \x0041
    <<"hex", 92>>,                                        \* \x005C
    <<"hex", 34>>,                                        \* \x0022
    <<"tab", 9>>,                                         \* \t
    <<"plain", 110>>                                      \* n
}

\* the longest literal, in atoms
MaxHexAtoms == 3

HexAtomText(a) ==
    IF a[1] = "hex" THEN <<BSLASH, CHAR_x>> \o Hex4(a[2], "upper")
    ELSE IF a[1] = "tab" THEN <<BSLASH, 116>>
    ELSE <<a[2]>>

RECURSIVE HexAtomsText(_)
HexAtomsText(as) ==
    IF as = <<>> THEN <<>> ELSE HexAtomText(Head(as)) \o HexAtomsText(Tail(as))

\* IDS "..." or IDS L"..."
HexText(wide, as) ==
    JoinLines(<<S_IDS \o <<SPACE>> \o (IF wide THEN <<CHAR_L>> ELSE <<>>)
                \o <<QUOTE>> \o HexAtomsText(as) \o <<QUOTE>>>>)

InitHex ==
    /\ rc_file_text \in {HexText(wide, as) :
            wide \in BOOLEAN, as \in SeqsOf(HexAtoms, 1, MaxHexAtoms)}
    /\ InitLocals

SpecHex == InitHex /\ [][Next]_vars

\* the characters the atoms stand for when the hex escapes are decoded
HexAtomsDecoded(as) == [k \in 1..Len(as) |-> as[k][2]]

\* the characters the atoms stand for when the hex escapes are left as
\* they are written
RECURSIVE HexAtomsVerbatim(_)
HexAtomsVerbatim(as) ==
    IF as = <<>> THEN <<>>
    ELSE (IF Head(as)[1] = "hex" THEN HexAtomText(Head(as)) ELSE <<Head(as)[2]>>)
         \o HexAtomsVerbatim(Tail(as))

\* ----------------------------------------------------------------------
\* Literals with slashes in the body, such as a URL, in the place of each
\* of the three grammars: at the top level, inside the block of a menu and
\* at depth 0 of a dialog.
\* ----------------------------------------------------------------------
\* a, the slash and the colon
SlashAlphabet == {97, SLASH, 58}

\* the longest body, in characters
MaxSlashLen == 3

SlashBodies == SeqsOf(SlashAlphabet, 0, MaxSlashLen)

SlashPrefixes == {
    <<>>,
    << <<77, 32, 77, 69, 78, 85>>, S_BEGIN >>,            \* M MENU, BEGIN
    << <<68, 32, 68, 73, 65, 76, 79, 71, 32, 48>> >>      \* D DIALOG 0
}

\* the lines of the prefix, then CAPTION "body"
SlashText(pre, body) == JoinLines(pre \o <<CaptionLine(<<>>, body)>>)

InitSlash ==
    /\ rc_file_text \in {SlashText(pre, body) :
            pre \in SlashPrefixes, body \in SlashBodies}
    /\ InitLocals

SpecSlash == InitSlash /\ [][Next]_vars

\* s holds two slashes in a row
HasSlashes(s) == \E j \in 1..Len(s) : HasAt(s, j, <<SLASH, SLASH>>)

\* ----------------------------------------------------------------------
\* The scan as a function of the lines: lines 15-79 folded over the list
\* from the state st of the locals, one line at a time as Dispatch and Emit
\* take it.  strs is the output so far; exc tells that line 75 raised.
\* ----------------------------------------------------------------------
\* the locals after lines 10-13
InitialLocals ==
    [strs |-> <<>>, exc |-> FALSE, menu |-> FALSE, dialog |-> FALSE,
     stringtable |-> FALSE, block_level |-> 0, id_str |-> None,
     dialog_id |-> None, hint |-> None, orig_str |-> None]

\* lines 16-79 for one line
ScanLine(line, st) ==
    LET t == Track(NormLine(line), st.menu, st.dialog, st.dialog_id,
                   st.stringtable, st.block_level)
        p == Dispatched(line, t, st.id_str, st.hint, st.orig_str)
        r == IF Truthy(p.orig_str) THEN Decode(p.orig_str[1])
             ELSE [str |-> <<>>, exc |-> FALSE]
        emits == Truthy(p.orig_str) /\ ~r.exc
    IN  [strs |-> IF emits THEN AppendString(st.strs, r.str) ELSE st.strs,
         exc |-> r.exc,
         menu |-> t.menu, dialog |-> t.dialog, stringtable |-> t.stringtable,
         block_level |-> t.block_level, dialog_id |-> t.dialog_id,
         id_str |-> IF emits THEN None ELSE p.id_str,
         hint |-> IF emits THEN None ELSE p.hint,
         orig_str |-> IF emits THEN None ELSE p.orig_str]

RECURSIVE ScanFrom(_, _, _)
ScanFrom(ls, i, st) ==
    IF i > Len(ls) \/ st.exc THEN st
    ELSE ScanFrom(ls, i + 1, ScanLine(ls[i], st))

\* parse_rc_file of the text of the lines ls: the returned list
ParseLines(ls) == ScanFrom(ls, 1, InitialLocals).strs

\* Closed constructs followed by any lines.
L_PopupItem == <<80, 32, 34, 97, 34, 44, 32, 73>>            \* P "a", I
L_Entry == <<73, 32, 34, 97, 34>>                            \* I "a"
L_MenuM == <<77, 32, 77, 69, 78, 85>>                        \* M MENU
L_DialogD == <<68, 32, 68, 73, 65, 76, 79, 71, 32, 48>>      \* D DIALOG 0
L_CaptionT == <<67, 65, 80, 84, 73, 79, 78, 32, 34, 84, 34>> \* CAPTION "T"
L_FontS == <<70, 79, 78, 84, 32, 56, 44, 32, 34, 83, 34>>    \* FONT 8, "S"

\* a string table, a menu with a nested popup, a dialog with its caption,
\* a bare block, and two constructs one after the other; the empty list
ClosedConstructs == {
    <<>>,
    <<S_STRINGTABLE, S_BEGIN, L_Entry, S_END>>,
    <<L_MenuM, S_BEGIN, L_PopupItem, S_BEGIN, L_Entry, S_END, S_END>>,
    <<L_DialogD, L_CaptionT, S_BEGIN, L_Entry, <<32, 32, 69, 78, 68, 9>> >>,
    <<S_BEGIN, S_END>>,
    <<L_MenuM, S_BEGIN, S_END, L_DialogD, S_BEGIN, L_FontS, S_END>>
}

\* the lines that follow: keywords, headers, an identifier, and literals
\* that each of the three grammars takes or leaves
TailPool == {
    S_BEGIN,
    S_END,
    L_MenuM,
    L_DialogD,
    L_FontS,
    L_Entry,
    <<73>>,                                               \* I
    <<34, 98, 34>>                                        \* "b"
}

\* the most lines after the closed constructs
MaxTailLines == 2

InitCompose ==
    /\ rc_file_text \in {JoinLines(a \o b) :
            a \in ClosedConstructs, b \in SeqsOf(TailPool, 0, MaxTailLines)}
    /\ InitLocals

SpecCompose == InitCompose /\ [][Next]_vars

\* BEGINs less ENDs among the first k of the lines ls
NestDepth(ls, k) ==
    Cardinality({i \in 1..k : NormLine(ls[i]) = S_BEGIN})
        - Cardinality({i \in 1..k : NormLine(ls[i]) = S_END})

\* the first k lines of ls are complete, properly nested constructs: the
\* depth is never negative and the k-th line is an END that brings it to 0
ClosedAt(ls, k) ==
    /\ k >= 1
    /\ NormLine(ls[k]) = S_END
    /\ NestDepth(ls, k) = 0
    /\ \A j \in 1..k : NestDepth(ls, j) >= 0

\* ----------------------------------------------------------------------
\* Pending ids: identifiers alone on a line, literals at the start of a
\* line, closed and not, and the construct keywords around them.
\* ----------------------------------------------------------------------
PendingPool == {
    <<73>>,                                               \* I
    <<34, 98, 34>>,                                       \* "b"
    <<34, 98>>,                                           \* "b
    L_Entry,
    L_MenuM,
    L_DialogD,
    S_STRINGTABLE,
    S_BEGIN,
    S_END
}

\* the longest input of SpecPending, in lines
MaxPendingLines == 3

InitPending ==
    /\ rc_file_text \in
         {JoinLines(ls) : ls \in SeqsOf(PendingPool, 0, MaxPendingLines)}
    /\ InitLocals

SpecPending == InitPending /\ [][Next]_vars

\* the values a pending field is tried with: None and a word
PendingValues == {None, Some(<<73>>)}

\* ----------------------------------------------------------------------
\* Keywords and headers with a comment after them, with and without a
\* blank before the comment, next to the plain ones.
\* ----------------------------------------------------------------------
L_BeginComment == <<66, 69, 71, 73, 78, 32, 47, 47, 32, 99>>       \* BEGIN // c
L_EndComment == <<32, 69, 78, 68, 9, 47, 47, 99>>                  \* ' END<tab>//c'
L_BeginTight == <<66, 69, 71, 73, 78, 47, 47, 99>>                 \* BEGIN//c
L_MenuComment == <<77, 32, 77, 69, 78, 85, 32, 47, 47, 32, 99>>    \* M MENU // c

KeywordPool == {
    S_BEGIN,
    S_END,
    <<32, 66, 69, 71, 73, 78, 9>>,                        \* ' BEGIN<tab>'
    L_BeginComment,
    L_EndComment,
    L_BeginTight,
    L_MenuM,
    L_MenuComment,
    L_Entry
}

\* the longest input of SpecKeyword, in lines
MaxKeywordLines == 3

InitKeyword ==
    /\ rc_file_text \in
         {JoinLines(ls) : ls \in SeqsOf(KeywordPool, 0, MaxKeywordLines)}
    /\ InitLocals

SpecKeyword == InitKeyword /\ [][Next]_vars

\* the line holds the word kw, at its start or after a blank, then one
\* blank or more and a // comment, with no // before that
CommentedKeyword(line, kw) ==
    \E p \in 1..Len(line) :
        /\ HasAt(line, p, kw)
        /\ p = 1 \/ IsBlank(line[p - 1])
        /\ SkipBlank(line, p + Len(kw)) > p + Len(kw)
        /\ HasAt(line, SkipBlank(line, p + Len(kw)), <<SLASH, SLASH>>)
        /\ \A k \in 1..(p + Len(kw)) : ~HasAt(line, k, <<SLASH, SLASH>>)

\* ----------------------------------------------------------------------
\* Several literals on one line, at the top level: a prefix, then quoted
\* bodies with a separator between them; the first may be a wide literal.
\* ----------------------------------------------------------------------
LiteralBodies == {<<97>>, <<98, 99>>, <<>>}
Separators == {<<COMMA, SPACE>>, <<SPACE>>, <<>>}
LinePrefixes == {S_IDS \o <<SPACE>>, <<>>}

\* the most literals on the line
MaxLiterals == 3

\* "b1" sep "b2" sep ... "bn"
RECURSIVE QuotedList(_, _)
QuotedList(bs, sep) ==
    IF Len(bs) = 1 THEN <<QUOTE>> \o bs[1] \o <<QUOTE>>
    ELSE <<QUOTE>> \o Head(bs) \o <<QUOTE>> \o sep \o QuotedList(Tail(bs), sep)

ManyLine(pre, wide, bs, sep) ==
    pre \o (IF wide THEN <<CHAR_L>> ELSE <<>>) \o QuotedList(bs, sep)

ManyText(pre, wide, bs, sep) == JoinLines(<<ManyLine(pre, wide, bs, sep)>>)

InitMany ==
    /\ rc_file_text \in {ManyText(pre, wide, bs, sep) :
            pre \in LinePrefixes, wide \in BOOLEAN,
            bs \in SeqsOf(LiteralBodies, 2, MaxLiterals), sep \in Separators}
    /\ InitLocals

SpecMany == InitMany /\ [][Next]_vars

\* the bodies with what stands between them on the line: quote, separator,
\* quote
RECURSIVE SpannedBody(_, _)
SpannedBody(bs, sep) ==
    IF Len(bs) = 1 THEN bs[1]
    ELSE Head(bs) \o <<QUOTE>> \o sep \o <<QUOTE>> \o SpannedBody(Tail(bs), sep)

\* ----------------------------------------------------------------------
\* The handlers of the menus as a state machine: keys are sent to the menus
\* on display, their items are pressed, and the Button.Pressed messages are
\* handled in the order they were posted.
\* ----------------------------------------------------------------------
\* the most Button.Pressed messages posted and not yet handled
MaxPressed == 1

KeyEvent(target, e) ==
    [target |-> target, name |-> "key", key |-> e.key,
     character |-> e.character, button |-> 0]

ButtonEvent(target, name, button) ==
    [target |-> target, name |-> name, key |-> "", character |-> None,
     button |-> button]

\* Menu.on_key, lines 86-109, of menu m
Menu_on_key(m, e) ==
    /\ display[m]
    /\ focus_index' = [focus_index EXCEPT
                         ![m] = FocusIndex(e.key, @, Len(MenuTree[m]))]
    /\ display' = IF e.key = "escape" THEN close(display, m) ELSE display
    /\ LET item == HotkeyItem(MenuTree[m], e.character)
       IN  pressed' = IF /\ e.key \notin {"up", "down", "escape"}
                         /\ IsPrintable(e)
                         /\ m # MenuBar
                         /\ item # 0
                      THEN Append(pressed, <<m, item>>)
                      ELSE pressed
    /\ Len(pressed') <= MaxPressed
    /\ event' = KeyEvent(m, e)
    /\ UNCHANGED <<parent_menu, gridVars, rcVars>>

\* Button.press of item i of menu m, by a click on it: the item of a menu
\* on display posts Button.Pressed
press(m, i) ==
    /\ display[m]
    /\ MenuTree[m][i].class = "MenuItem"
    /\ Len(pressed) < MaxPressed
    /\ pressed' = Append(pressed, <<m, i>>)
    /\ event' = ButtonEvent(m, "press", i)
    /\ UNCHANGED <<display, parent_menu, focus_index, gridVars, rcVars>>

\* Menu.on_button_pressed, lines 112-132, for the oldest message
Menu_on_button_pressed ==
    /\ pressed # <<>>
    /\ LET m == Head(pressed)[1]
           i == Head(pressed)[2]
           after == ButtonPressed([display |-> display,
                                   parent_menu |-> parent_menu], m, i)
       IN  /\ display' = after.display
           /\ parent_menu' = after.parent_menu
           /\ event' = ButtonEvent(m, "pressed", i)
    /\ pressed' = Tail(pressed)
    /\ UNCHANGED <<focus_index, gridVars, rcVars>>

InitMenus ==
    /\ rc_file_text = <<>>
    /\ InitLocals

NextMenus ==
    \/ \E m \in Menus : \E e \in MenuKeys : Menu_on_key(m, e)
    \/ \E m \in Menus : \E i \in DOMAIN MenuTree[m] : press(m, i)
    \/ Menu_on_button_pressed

SpecMenus == InitMenus /\ [][NextMenus]_vars

\* ----------------------------------------------------------------------
\* The handlers of the color grid as a state machine.
\* ----------------------------------------------------------------------
\* the classes of the buttons and selected_color
Grid == [focused |-> focused, selected |-> selected,
         selected_color |-> selected_color]

\* ColorGrid.on_key, lines 67-82
ColorGrid_on_key(key) ==
    /\ LET after == GridKey(Grid, key, colors)
       IN  /\ focused' = after.focused
           /\ selected' = after.selected
           /\ selected_color' = after.selected_color
    /\ event' = KeyEvent(0, Key(key))
    /\ UNCHANGED <<colors, menuVars, rcVars>>

\* ColorGrid.on_button_pressed, lines 119-126, for a press of a button
ColorGrid_on_button_pressed(button) ==
    /\ LET after == GridButtonPressed(Grid, button, colors)
       IN  /\ focused' = after.focused
           /\ selected' = after.selected
           /\ selected_color' = after.selected_color
    /\ event' = ButtonEvent(0, "pressed", button)
    /\ UNCHANGED <<colors, menuVars, rcVars>>

InitColorGrid ==
    /\ rc_file_text = <<>>
    /\ LocalsAtEntry
    /\ MenusMounted
    /\ \E color_list \in ColorLists : GridMounted(color_list)
    /\ event = NoEvent

NextColorGrid ==
    \/ \E key \in GridKeys : ColorGrid_on_key(key)
    \/ \E button \in 0..(Len(colors) - 1) : ColorGrid_on_button_pressed(button)

SpecColorGrid == InitColorGrid /\ [][NextColorGrid]_vars

\* ----------------------------------------------------------------------
\* Claims.
\* ----------------------------------------------------------------------

\* C1: parse_rc_file never raises: whatever the lines are (unterminated
\* quotes, END with no BEGIN, lines of no grammar, hex escapes), the scan
\* never leaves by an exception.
C1_NeverRaises == pc # "raised"

\* a scan that returned after a stray END, an unterminated quote and a wide
\* literal whose hex escape was decoded
C1_Witness ==
    /\ pc = "done"
    /\ block_level < 0
    /\ \E i \in 1..Len(lines) : lines[i] = <<73, 32, 34, 97>>
    /\ \E k \in 1..Len(strings) : strings[k] = <<65535, 52, 49>>

\* C6: the construct flags follow the nesting: a line resets menu, dialog,
\* dialog_id and stringtable exactly when it is an END that brings
\* block_level to 0; on every other line, an END that leaves another depth
\* included, the flags that were set stay set.
C6_FlagsFollowNesting ==
    [][(pc = "loop" /\ pc' = "emit") =>
         IF lines[idx] = S_END /\ block_level' = 0
         THEN ~menu' /\ ~dialog' /\ dialog_id' = None /\ ~stringtable'
         ELSE /\ menu => menu'
              /\ dialog => dialog'
              /\ dialog_id # None => dialog_id' # None
              /\ stringtable => stringtable']_vars

\* the END of a nested BEGIN/END pair inside a dialog has just been scanned:
\* the depth is back to 1 and the dialog is still open
C6_Witness ==
    /\ pc = "emit"
    /\ idx = 4
    /\ lines[1] = <<68, 32, 68, 73, 65, 76, 79, 71, 32, 48>>
    /\ lines[2] = S_BEGIN
    /\ lines[3] = S_BEGIN
    /\ lines[4] = S_END
    /\ block_level = 1
    /\ dialog
    /\ dialog_id = Some(<<68>>)

\* C10: the output keeps source order and duplicates: a line that leaves a
\* literal appends exactly one element at the end of strings and leaves the
\* earlier elements where they are, also when an equal string is already
\* there.
C10_OrderAndDuplicates ==
    [][(pc = "emit" /\ Truthy(orig_str) /\ pc' = "loop") =>
         /\ Len(strings') = Len(strings) + 1
         /\ SubSeq(strings', 1, Len(strings)) = strings]_vars

\* I "a", CAPTION "T", I "a" gave a, T, a
C10_Witness ==
    /\ pc = "done"
    /\ strings = <<(<<97>>), (<<84>>), (<<97>>)>>

\* C2: for a well-formed STRINGTABLE block (STRINGTABLE, BEGIN, entry lines
\* ID "text", END) the scan returns the unescaped text of each entry, one
\* element per entry, in declaration order.
C2_StringTableEntries ==
    pc = "done" =>
        \A ts \in SeqsOf(EntryTexts, 1, MaxEntries) :
            rc_file_text = StringTableText(ts) => strings = ts

\* C3: round trip: a plain string written as an RC literal on a string-table
\* line comes back from the scan as the one output element.
C3_RoundTrip ==
    pc = "done" =>
        \A s \in PlainStrings :
            rc_file_text = RoundTripText(s) => strings = <<s>>

\* C7: two-line idiom: an identifier alone on a line followed by a literal
\* alone on the next line gives exactly one output element, the decoded
\* literal: the first line emits nothing and the second emits it.
C7_TwoLineIdiom ==
    \A pre \in TwoLinePrefixes, idl \in IdLines, ind \in TwoLineIndents,
       s \in PlainStrings :
        rc_file_text = TwoLineText(pre, idl, ind, s) =>
            /\ (pc = "loop" /\ idx = Len(pre) + 2) => strings = <<>>
            /\ pc = "done" => strings = <<s>>

\* C8: comment stripping: the line ID "text" // comment emits exactly the
\* decoded text, whatever the comment text is, and nothing of the comment.
C8_CommentStripped ==
    pc = "done" =>
        \A s \in CommentedStrings, c \in CommentTexts :
            rc_file_text = CommentText(s, c) => strings = <<s>>

\* C4: for a MENU construct the scan returns the labels of all its POPUP
\* and MENUITEM lines in source order, the & markers left as they are, and
\* nothing else: the header, BEGIN and END lines emit nothing.
C4_MenuLabels ==
    pc = "done" => strings = MenuLabels(lines)

\* the menu of the specification, IDR_MAINMENU MENU / BEGIN / POPUP "&File" /
\* BEGIN / MENUITEM "&Open...", ID_FILE_OPEN / END / END, gave &File, &Open...
C4_Witness ==
    /\ pc = "done"
    /\ lines = <<L_MenuHeader, S_BEGIN, L_Popup, S_BEGIN, L_ItemOpen, S_END, S_END>>
    /\ strings = <<(<<38, 70, 105, 108, 101>>),
                   (<<38, 79, 112, 101, 110, 46, 46, 46>>)>>

\* C5: a CAPTION "title" line of a DIALOG or DIALOGEX construct yields the
\* title as an extracted string, before the dialog's BEGIN and after it:
\* every CAPTION line of the construct gives one occurrence of its title.
C5_DialogCaption ==
    pc = "done" =>
        \A title \in DialogTitles :
            Occurrences(strings, title) = CaptionCount(lines, title)

\* a dialog with CAPTION "Some Title" before BEGIN and once more after it
\* gave the title twice
C5_Witness ==
    /\ pc = "done"
    /\ \E i, j, k \in 1..Len(lines) :
        /\ i < j /\ j < k
        /\ lines[i] = CaptionLine(<<>>, S_SomeTitle)
        /\ lines[j] = S_BEGIN
        /\ lines[k] = CaptionLine(<<SPACE, SPACE>>, S_SomeTitle)
    /\ strings = <<S_SomeTitle, S_SomeTitle>>

\* C9: in a wide literal every \x followed by four hex digits decodes to the
\* character with that code point, and a hex digit after the four stays an
\* ordinary character.
C9_WideHex ==
    pc = "done" =>
        \A as \in SeqsOf(WideAtoms, 1, MaxAtoms) :
            rc_file_text = WideText(as) => strings = <<AtomsValue(as)>>

\* L"\x00414\x0042" gave A4B
C9_Witness ==
    /\ pc = "done"
    /\ rc_file_text = WideText(<<(<<"upper", 65>>), (<<"plain", 52>>), (<<"upper", 66>>)>>)
    /\ strings = <<(<<65, 52, 66>>)>>


\* C11: a text in which no line holds two double quotes, the empty text
\* included, gives an empty output, whatever BEGIN, END, MENU, DIALOG and
\* STRINGTABLE lines it holds.
C11_NoLiteralNoOutput ==
    (pc # "start" /\ \A i \in 1..Len(lines) : QuoteCount(lines[i]) < 2)
        => strings = <<>>

\* D DIALOG 0, CAPTION "T, I "a: a caption, at depth 0 of a dialog, and a
\* string line with an opening quote only, scanned to the end
C11_Witness ==
    /\ pc = "done"
    /\ lines = << <<68, 32, 68, 73, 65, 76, 79, 71, 32, 48>>,
                 <<67, 65, 80, 84, 73, 79, 78, 32, 34, 84>>,
                 <<73, 32, 34, 97>> >>
    /\ dialog
    /\ strings = <<>>

\* C12: block_level is never negative: after any lines, END lines with no
\* BEGIN before them included, block_level >= 0.
C12_DepthNonNegative == block_level >= 0

\* C13: the body of a literal is decoded by replacing, in this order, the
\* two-character sequences \r by CR, \n by LF, \t by TAB and then \" by the
\* double quote: a body that holds \" comes out without that backslash.
C13_EscapesInOrder ==
    pc = "done" =>
        \A body \in Bodies :
            rc_file_text = BodyText(body) => strings = <<EscapesDecoded(body)>>

\* C14: hex escapes are decoded in L-prefixed literals only: a literal with
\* no L keeps \xHHHH as it is written, and in a wide literal the escapes are
\* decoded after the quotes are stripped and after the replacements of \r,
\* \n, \t and the quote, so that a decoded backslash or quote starts no
\* escape and ends no literal.
C14_HexOnlyInWide ==
    pc = "done" =>
        \A wide \in BOOLEAN, as \in SeqsOf(HexAtoms, 1, MaxHexAtoms) :
            rc_file_text = HexText(wide, as) =>
                strings = <<IF wide THEN HexAtomsDecoded(as)
                            ELSE HexAtomsVerbatim(as)>>

\* the narrow literal "\x0041\t" gave the six characters \x0041 and a TAB
C14_Witness ==
    /\ pc = "done"
    /\ rc_file_text = HexText(FALSE, <<(<<"hex", 65>>), (<<"tab", 9>>)>>)
    /\ strings = <<(<<92, 120, 48, 48, 52, 49, 9>>)>>

\* C15: the item grammar of line 46 is applied to a line only when menu or
\* dialog is set and block_level > 0: no line whose depth is 0 or less has
\* its literal taken by that branch.
C15_ItemBranchInsideBlock ==
    (pc = "emit" /\ Branch(menu, dialog, block_level) = "item"
                 /\ Truthy(orig_str))
        => block_level > 0

\* the raw literal the one grammar of a line's place gives: the caption
\* pattern at depth 0 of a dialog, the item pattern inside a block of a menu
\* or a dialog, the search for a literal anywhere else; None for no match
OwnLiteral(line, m, d, b) ==
    IF d /\ b = 0
    THEN (IF CaptionMatch(line).ok THEN Some(CaptionMatch(line).g2) ELSE None)
    ELSE IF (m \/ d) /\ b # 0
    THEN (IF ItemMatch(line).ok THEN Some(ItemMatch(line).g2) ELSE None)
    ELSE (IF SearchLiteral(line).ok THEN Some(SearchLiteral(line).g0) ELSE None)

\* C16: one branch per line and no fall-through: the literal a line leaves
\* is the one its own grammar gives, chosen from dialog, menu and
\* block_level as they are after the line's own tracking; a line in the
\* place of a caption or of an item that its grammar does not match leaves
\* nothing and the output is as it was, a quoted string on the line or not.
C16_OneBranchPerLine ==
    [][(pc = "emit" /\ pc' = "loop") =>
         LET own == OwnLiteral(lines[idx], menu, dialog, block_level) IN
         /\ orig_str = own
         /\ own = None => strings' = strings
         /\ own # None => Len(strings') = Len(strings) + 1]_vars

\* D DIALOG 0, FONT 8, "S", CAPTION "T" gave T alone: the FONT line, at
\* depth 0 of the dialog, holds a quoted string and emitted nothing
C16_Witness ==
    /\ pc = "done"
    /\ lines = << <<68, 32, 68, 73, 65, 76, 79, 71, 32, 48>>,
                 <<70, 79, 78, 84, 32, 56, 44, 32, 34, 83, 34>>,
                 <<67, 65, 80, 84, 73, 79, 78, 32, 34, 84, 34>> >>
    /\ strings = <<(<<84>>)>>

\* C17: emission clears what is pending: when a line leaves orig_str set,
\* its decoded value is appended and id_str, hint and orig_str are all None
\* before the next line; so at the head of the loop orig_str and hint are
\* always None, and no literal of one line is emitted on a later one.
C17_EmissionClearsPending ==
    [][/\ pc' = "loop" => (orig_str' = None /\ hint' = None)
       /\ (pc = "emit" /\ Truthy(orig_str) /\ pc' = "loop") =>
            /\ strings' = Append(strings, Decode(orig_str[1]).str)
            /\ id_str' = None]_vars

\* M MENU, BEGIN, P "a", I: the item line left the id I, the hint P I and
\* the literal, a was appended, and all three are None at the loop head
C17_Witness ==
    /\ pc = "loop"
    /\ idx = 4
    /\ lines[3] = <<80, 32, 34, 97, 34, 44, 32, 73>>
    /\ menu
    /\ block_level = 1
    /\ strings = <<(<<97>>)>>
    /\ id_str = None
    /\ hint = None
    /\ orig_str = None

\* the word of a line that is one word and nothing else but blanks around
\* it and a // comment after it; None for any other line
BareIdentifier(line) ==
    LET fits(a, b) ==
            /\ \A k \in 1..(a - 1) : IsBlank(line[k])
            /\ \A k \in a..b : IsWord(line[k])
            /\ \/ \A k \in (b + 1)..Len(line) : IsBlank(line[k])
               \/ \E c \in (b + 1)..Len(line) :
                     /\ \A k \in (b + 1)..(c - 1) : IsBlank(line[k])
                     /\ HasAt(line, c, <<SLASH, SLASH>>)
        ends == {<<a, b>> \in (1..Len(line)) \X (1..Len(line)) :
                    a <= b /\ fits(a, b)}
    IN  IF ends = {} THEN None
        ELSE LET e == CHOOSE e \in ends : TRUE IN Some(SubSeq(line, e[1], e[2]))

\* C18: in the fallback branch a line that is a bare identifier sets id_str
\* to that word and leaves the output as it is; a line with no quoted
\* string that is not a bare identifier sets id_str to None and leaves the
\* output as it is; and an id_str that is set stays set, with its value,
\* over every line that neither leaves a literal nor is one of these two.
C18_PendingId ==
    [][/\ (pc = "loop" /\ pc' = "emit") =>
            LET line == lines[idx]
                fallback == Branch(menu', dialog', block_level') = "fallback"
            IN  IF fallback /\ QuoteCount(line) < 2
                THEN /\ id_str' = BareIdentifier(line)
                     /\ orig_str' = None
                ELSE orig_str' = None => id_str' = id_str
       /\ (pc = "emit" /\ orig_str = None) =>
            (id_str' = id_str /\ strings' = strings)]_vars

\* I, BEGIN // c: each line is a bare identifier in the fallback, the second
\* has replaced the id of the first, and nothing was emitted
C18_Witness ==
    /\ pc = "loop"
    /\ idx = 3
    /\ lines[1] = <<73>>
    /\ lines[2] = <<66, 69, 71, 73, 78, 32, 47, 47, 32, 99>>
    /\ id_str = Some(S_BEGIN)
    /\ block_level = 0
    /\ strings = <<>>

\* C19: the // strip of line 17 comes before the literal patterns, so a
\* literal whose body holds // is cut by it: the text from // onward never
\* reaches the output.
C19_SlashesNeverEmitted ==
    \A k \in 1..Len(strings) : ~HasSlashes(strings[k])

\* C19, amended: the // strip of line 17 gives the normalised line, which
\* the construct tracking alone reads; the literal patterns are matched on
\* the raw line, so a literal whose body holds // is not cut by the strip:
\* it is emitted with the // and the text after it.
C19_SlashesKept ==
    pc = "done" =>
        \A pre \in SlashPrefixes, body \in SlashBodies :
            rc_file_text = SlashText(pre, body) => strings = <<body>>

\* a menu item with the body //a gave //a
C19_Witness ==
    /\ pc = "done"
    /\ rc_file_text = SlashText(<< <<77, 32, 77, 69, 78, 85>>, S_BEGIN >>,
                                <<SLASH, SLASH, 97>>)
    /\ strings = <<(<<SLASH, SLASH, 97>>)>>

\* C20: a line appends at most one string and no step removes or changes
\* an element: the output after the first k lines is a prefix of every
\* later output, the returned one included, and holds at most k elements.
C20_PrefixPerLine ==
    [][/\ Len(strings) <= Len(strings')
       /\ SubSeq(strings', 1, Len(strings)) = strings
       /\ pc' \in {"loop", "done"} => Len(strings') <= idx' - 1]_vars

\* I "a", I, CAPTION "T" returned a, T: one element after the first two
\* lines, two after the three
C20_Witness ==
    /\ pc = "done"
    /\ lines = << <<73, 32, 34, 97, 34>>, <<73>>,
                 <<67, 65, 80, 84, 73, 79, 78, 32, 34, 84, 34>> >>
    /\ strings = <<(<<97>>), (<<84>>)>>

\* C21: the reset composes: when the first k lines are complete, properly
\* nested constructs, the scan of the whole text returns the output of
\* those k lines followed by the output of the lines after them, each
\* scanned on its own from the initial state.
C21_ResetComposes ==
    pc = "done" =>
        \A k \in 1..Len(lines) :
            ClosedAt(lines, k) =>
                strings = ParseLines(SubSeq(lines, 1, k))
                            \o ParseLines(SubSeq(lines, k + 1, Len(lines)))

\* after the closed menu with its popup, BEGIN and FONT 8, "S" follow: the
\* menu gave a twice, and the FONT line, in a block of no construct, gave S
C21_Witness ==
    /\ pc = "done"
    /\ lines = <<L_MenuM, S_BEGIN, L_PopupItem, S_BEGIN, L_Entry, S_END, S_END,
                 S_BEGIN, L_FontS>>
    /\ ClosedAt(lines, 7)
    /\ strings = <<(<<97>>), (<<97>>), (<<83>>)>>

\* C22: the output does not depend on id_str, hint, dialog_id or
\* stringtable: from any line on, a scan of the remaining lines from the
\* same menu, dialog and block_level appends the same strings whatever
\* these four hold; the branch of line 62 is never the one that sets the
\* literal.
C22_OutputIgnoresPending ==
    pc = "loop" =>
        LET here == [strs |-> <<>>, exc |-> FALSE, menu |-> menu,
                     dialog |-> dialog, stringtable |-> stringtable,
                     block_level |-> block_level, id_str |-> id_str,
                     dialog_id |-> dialog_id, hint |-> hint,
                     orig_str |-> orig_str]
        IN  \A i \in PendingValues, h \in PendingValues, d \in PendingValues,
               st \in BOOLEAN :
                ScanFrom(lines, idx, [here EXCEPT !.id_str = i, !.hint = h,
                                                  !.dialog_id = d,
                                                  !.stringtable = st]).strs
                    = ScanFrom(lines, idx, here).strs

\* I, "b": the identifier of the first line is pending at the head of the
\* loop, and the next line starts with a literal
C22_Witness ==
    /\ pc = "loop"
    /\ idx = 2
    /\ id_str = Some(<<73>>)
    /\ lines[2] = <<34, 98, 34>>
    /\ ScanFrom(lines, idx, [InitialLocals EXCEPT !.id_str = id_str]).strs
         = <<(<<98>>)>>

\* C23: a BEGIN or an END followed by blanks and a // comment leaves
\* block_level as it is, and a header ending in MENU followed by blanks and
\* a comment does not set menu: the trim comes before the comment is
\* removed and the keywords are compared exactly; the depth changes only on
\* a line whose normalised form is exactly BEGIN or END.
C23_CommentedKeywordIgnored ==
    [][(pc = "loop" /\ pc' = "emit") =>
         LET line == lines[idx] IN
         /\ (CommentedKeyword(line, S_BEGIN) \/ CommentedKeyword(line, S_END))
                => block_level' = block_level
         /\ CommentedKeyword(line, <<77, 69, 78, 85>>) => menu' = menu
         /\ block_level' # block_level => NormLine(line) \in {S_BEGIN, S_END}
         /\ NormLine(line) = S_BEGIN => block_level' = block_level + 1
         /\ NormLine(line) = S_END => block_level' = block_level - 1]_vars

\* M MENU // c, BEGIN // c, BEGIN: no menu and the depth 1 of the one
\* plain BEGIN
C23_Witness ==
    /\ pc = "done"
    /\ lines = <<L_MenuComment, L_BeginComment, S_BEGIN>>
    /\ ~menu
    /\ block_level = 1

\* C24: the search of the fallback branch is greedy over the raw line: a
\* line with several quoted literals emits one string, whose body runs from
\* the first opening quote to the last quote of the line, the quotes and
\* the text between the literals included; not one string per literal and
\* not the first literal alone.
C24_GreedyFallback ==
    pc = "done" =>
        \A pre \in LinePrefixes, wide \in BOOLEAN, sep \in Separators,
           bs \in SeqsOf(LiteralBodies, 2, MaxLiterals) :
            rc_file_text = ManyText(pre, wide, bs, sep) =>
                strings = <<SpannedBody(bs, sep)>>

\* IDS "a", "bc" gave the one string a", "bc
C24_Witness ==
    /\ pc = "done"
    /\ lines = <<(<<73, 68, 83, 32, 34, 97, 34, 44, 32, 34, 98, 99, 34>>)>>
    /\ strings = <<(<<97, 34, 44, 32, 34, 98, 99>>)>>

\* C25: in a menu of at least one item focus_index stays within
\* 0..len(items)-1 whatever keys are sent; 'up' moves it one item back and
\* from 0 wraps to the last item, 'down' moves it one item on and from the
\* last item wraps to 0, and every other key leaves it as it was.
C25_FocusIndexInRange ==
    [][/\ \A m \in Menus :
            Len(MenuTree[m]) >= 1 =>
                /\ 0 <= focus_index'[m]
                /\ focus_index'[m] < Len(MenuTree[m])
       /\ (event'.name = "key" /\ event'.target \in Menus) =>
            LET m == event'.target
                last == Len(MenuTree[m]) - 1
            IN  /\ event'.key = "up" =>
                      focus_index'[m] = IF focus_index[m] = 0 THEN last
                                        ELSE focus_index[m] - 1
                /\ event'.key = "down" =>
                      focus_index'[m] = IF focus_index[m] = last THEN 0
                                        ELSE focus_index[m] + 1
                /\ event'.key \notin {"up", "down"} =>
                      focus_index'[m] = focus_index[m]
                /\ \A other \in Menus \ {m} :
                      focus_index'[other] = focus_index[other]
      ]_vars

\* 'up' was sent to the File menu, of five items, and its focus_index is on
\* the last of them: the key before it found it on the first
C25_Witness ==
    /\ event = KeyEvent(2, Key("up"))
    /\ display[2]
    /\ focus_index[2] = Len(MenuTree[2]) - 1
    /\ focus_index[1] = 1

\* the menus the items of m open
SubmenusOf(m) ==
    {MenuTree[m][i].submenu[1] :
        i \in {j \in DOMAIN MenuTree[m] : MenuTree[m][j].submenu # None}}

\* the menus below m in the tree
RECURSIVE Descendants(_)
Descendants(m) ==
    SubmenusOf(m) \cup UNION {Descendants(s) : s \in SubmenusOf(m)}

\* m and the menus reached from it through parent_menu
RECURSIVE ParentChain(_, _)
ParentChain(parents, m) ==
    {m} \cup IF parents[m] # None THEN ParentChain(parents, parents[m][1])
             ELSE {}

\* C26: whatever items are pressed, at most one submenu of each menu is on
\* display.  A press of an item of a menu whose submenu is closed leaves that
\* submenu open and every other submenu of the menu closed, with the menus
\* below it; a press of an item whose submenu is open closes it; a press of
\* an item with an action closes every menu of the parent chain but the
\* MenuBar, which stays on display; a press of a grayed item changes
\* nothing.  (An item is built with an action or with a submenu.)
C26_SubmenuExclusive ==
    [][/\ \A m \in Menus :
            Cardinality({s \in SubmenusOf(m) : display'[s]}) <= 1
       /\ display'[MenuBar]
       /\ (event'.name = "pressed" /\ event'.target \in Menus) =>
            LET m == event'.target
                button == MenuTree[m][event'.button]
            IN  /\ button.grayed =>
                      UNCHANGED <<display, parent_menu, focus_index>>
                /\ (~button.grayed /\ button.action) =>
                      \A x \in ParentChain(parent_menu, m) \ {MenuBar} :
                          ~display'[x]
                /\ (~button.grayed /\ button.submenu # None) =>
                      LET s == button.submenu[1]
                      IN  IF display[s]
                          THEN ~display'[s]
                          ELSE /\ display'[s]
                               /\ \A t \in SubmenusOf(m) \ {s} :
                                    \A x \in {t} \cup Descendants(t) :
                                        ~display'[x]
      ]_vars

\* Edit was pressed on the menu bar and is open; File and its submenu
\* Recent, which were opened before it, are closed
C26_Witness ==
    /\ event = ButtonEvent(MenuBar, "pressed", 2)
    /\ display[3]
    /\ ~display[2]
    /\ ~display[4]
    /\ parent_menu[2] = Some(MenuBar)
    /\ parent_menu[4] = Some(2)

\* the row of the grid a button is in
RowOf(button) == button \div num_colors_per_row

\* C27: whatever keys are sent and whatever buttons are pressed, at most one
\* button has the class focused and at most one the class selected, the
\* focused button is one of 0..len(colors)-1, and selected_color is the
\* color of the button that has the class selected.  'left' on a button of
\* column 0 and 'right' on a button of column 7 leave the focus where it is,
\* so 'left' and 'right' keep the focus in its row; 'up' and 'down' that
\* would leave the grid leave the focus where it is.
C27_GridFocusAndSelection ==
    [][/\ Cardinality(focused') <= 1
       /\ Cardinality(selected') <= 1
       /\ focused' \subseteq 0..(Len(colors') - 1)
       /\ \A b \in selected' : selected_color' = colors'[b + 1]
       /\ (event'.name = "key" /\ event'.target = 0) =>
            \A b \in focused :
                /\ (event'.key = "left" /\ b % num_colors_per_row = 0) =>
                      focused' = {b}
                /\ (/\ event'.key = "right"
                    /\ b % num_colors_per_row = num_colors_per_row - 1) =>
                      focused' = {b}
                /\ event'.key \in {"left", "right"} =>
                      \A a \in focused' : RowOf(a) = RowOf(b)
                /\ (event'.key = "up" /\ b - num_colors_per_row < 0) =>
                      focused' = {b}
                /\ (/\ event'.key = "down"
                    /\ b + num_colors_per_row >= Len(colors)) =>
                      focused' = {b}
      ]_vars

\* 'left' was sent to the grid of the 48 basic colors with the focus on the
\* first button of the second row, which is selected: the focus is still
\* there, and selected_color is the color of that button
C27_Witness ==
    /\ colors = basic_colors
    /\ event = KeyEvent(0, Key("left"))
    /\ focused = {num_colors_per_row}
    /\ selected = {num_colors_per_row}
    /\ selected_color = basic_colors[num_colors_per_row + 1]

=============================================================================
